---- MODULE Spec2Model ----
(***************************************************************************)
(* A model of fireyourconsultant (fyc): the image selector and the layout  *)
(* rendering engine of src/fyc/pptx_gen/generator.py, the template style   *)
(* extractor of src/fyc/template/extractor.py, the job of api/routes.py    *)
(* and the page retry of scraper/website_scraper.py.                       *)
(*                                                                         *)
(* Specifications:                                                         *)
(*   Spec           generate() called on one PptxGenerator                 *)
(*   SpecSelect     _get_image_for_category called with any categories     *)
(*   SpecSelectSeq  _get_image_for_category called with one category       *)
(*   SpecConcurrent two generate_pptx calls interleaved                    *)
(*   SpecExtract    the template style extractor                           *)
(*   SpecDispatch   slides parsed from a response, then rendered           *)
(*   SpecColor      lighten_color and darken_color                         *)
(*   SpecPalette    the palette built from counted colors                  *)
(*   SpecStat       the parsing of one bullet of a stats record            *)
(*   SpecFit        the sizing of one picture by _add_image_to_slide       *)
(*   SpecVector     the selector on brands with vector files               *)
(*   SpecGenerate   generate() called with a presentation given beforehand *)
(*   SpecJob        one job through process_presentation (api/routes.py)   *)
(*   SpecJobFair    SpecJob, the event loop running the task to its end    *)
(*   SpecScrape     one call of WebsiteScraper._scrape_page_with_retry     *)
(***************************************************************************)
EXTENDS Integers, Sequences, FiniteSets, TLC

VARIABLES
    brand_images,        \* BrandProfile.images, the ordered image list
    images_by_category,  \* PptxGenerator.images_by_category
    used_images,         \* PptxGenerator.used_images
    called,              \* whether _get_image_for_category has been called yet
    ncalls,              \* SpecSelectSeq: number of calls made so far
    category_arg,        \* SpecSelectSeq: the category every call passes
    last_category,       \* argument of the latest call
    last_image,          \* return value of the latest call
    prev_used,           \* used_images as the latest call found it
    returned,            \* local paths returned by the calls before the latest
    logo_path,           \* BrandProfile.logo_path
    slide_count,         \* PptxGenerator.slide_count
    prs,                 \* the slides of PptxGenerator.prs
    pc,                  \* where the caller of generate() is
    error,               \* the exception generate() raised, "" for none
    contents,            \* the SlideContent records the generator was given
    call_start,          \* Len(contents) when the current generate() began
    saved,               \* the slides of the file written by prs.save
    regenerated,         \* whether the current generate() is not the first
    calls,               \* SpecConcurrent: the generate_pptx calls in progress
    interleaved,         \* SpecConcurrent: whether the calls have overlapped
    extractor,           \* SpecExtract: the PptxTemplateExtractor
    profile,             \* SpecExtract: the TemplateProfile extract() returned
    output_dir,          \* SpecExtract: the files written to the output directory
    op,                  \* function specifications: the function applied, "" before
    args,                \* function specifications: its arguments
    result               \* function specifications: what it returned

genVars == <<brand_images, images_by_category, used_images>>

histVars == <<called, ncalls, category_arg, last_category, last_image,
              prev_used, returned>>

renVars == <<logo_path, slide_count, prs, pc, error, contents, call_start,
             saved, regenerated>>

concVars == <<calls, interleaved>>

extVars == <<extractor, profile, output_dir>>

pureVars == <<op, args, result>>

vars == <<genVars, histVars, renVars, concVars, extVars, pureVars>>

----------------------------------------------------------------------------
(* Bounds of the model *)

\* SpecSelect: longest BrandProfile.images list
MaxImages == 2
\* SpecSelectSeq: longest BrandProfile.images list
MaxPool == 3
\* SpecSelectSeq: most _get_image_for_category calls on one generator
MaxCalls == 5
\* Spec: most SlideContent records one generator is given
MaxSlides == 2
\* SpecConcurrent: longest presentation of a generate_pptx call
MaxConcSlides == 2
\* SpecExtract: most slide layouts of a template
MaxLayouts == 2
\* SpecDispatch: most slides of a response
MaxTags == 2
\* SpecPalette: most fill colors counted
MaxObs == 3
\* SpecStat: longest bullet
MaxBulletLen == 5

\* SpecFit: the largest pixel size of an image and the largest side of a box
MaxPixels == 4
MaxBox == 5

\* SpecJob: the most image files uploaded with a job
MaxUploads == 2

----------------------------------------------------------------------------
(* models.py: ImageCategory, ScrapedImage *)

USER_UPLOAD == "user_upload"

ImageCategory ==
    {"team", "product", "office", "abstract", "logo", "hero", "customer",
     "data", USER_UPLOAD, "unknown"}

\* Optional[ImageCategory] = None
NoCategory == "None"

CategoryArgs == ImageCategory \cup {NoCategory}

\* A local path, as its stem and its extension.  NoPath is a falsy local_path
\* (None or the empty string).
NoPath == [stem |-> "", ext |-> ""]

PngPath(s) == [stem |-> s, ext |-> "png"]
SvgPath(s) == [stem |-> s, ext |-> "svg"]

\* ScrapedImage: url identifies the record (its position in the brand's list)
NoImage == [url |-> 0, category |-> NoCategory, local_path |-> NoPath]

ScrapedImage(i, c, p) == [url |-> i, category |-> c, local_path |-> p]

\* the image lists of at most n images over the given categories and paths
ImageLists(cats, paths, n) ==
    UNION {
        { [i \in 1..k |-> ScrapedImage(i, cs[i], ps[i])] :
            cs \in [1..k -> cats], ps \in [1..k -> paths] }
        : k \in 0..n }

\* SpecSelect: the brands' images
SelectCategories == {USER_UPLOAD, "hero", "product", "abstract"}
SelectPaths == {PngPath("a"), PngPath("b"), SvgPath("d"), NoPath}

\* SpecSelectSeq: the brands' images and the categories asked for
SeqCategories == {USER_UPLOAD, "product", "hero"}
SeqPaths == {PngPath("a"), PngPath("b"), PngPath("c"), SvgPath("d")}
SeqArgs == {"product", "team", USER_UPLOAD}

----------------------------------------------------------------------------
(* generator.py: the image selector *)

Min(S) == CHOOSE x \in S : \A y \in S : x <= y

Range(seq) == {seq[i] : i \in 1..Len(seq)}

\* `if img.local_path`
Truthy(p) == p # NoPath

\* str.endswith('.svg'): case-sensitive
EndsWithSvg(p) == p.ext = "svg"

\* PptxGenerator._build_image_lookup; a category with no key is the empty list
BuildImageLookup(images) ==
    [c \in ImageCategory |->
        SelectSeq(images, LAMBDA img : img.category = c)]

\* the first image of the loops of lines 1038-1042, 1048-1052 and 1057-1061
\* as FirstUnused, without the test `not in self.used_images`
FirstUnusedForgetsUsed(images, used) ==
    LET hits == {i \in 1..Len(images) :
                    /\ Truthy(images[i].local_path)
                    /\ ~EndsWithSvg(images[i].local_path)}
    IN  IF hits = {} THEN NoImage ELSE images[Min(hits)]

FirstUnused(images, used) ==
    LET hits == {i \in 1..Len(images) :
                    /\ Truthy(images[i].local_path)
                    /\ images[i].local_path \notin used
                    /\ ~EndsWithSvg(images[i].local_path)}
    IN  IF hits = {} THEN NoImage ELSE images[Min(hits)]

\* the first image of the reuse loops of lines 1065-1067 and 1070-1072
FirstReusable(images) ==
    LET hits == {i \in 1..Len(images) :
                    /\ Truthy(images[i].local_path)
                    /\ ~EndsWithSvg(images[i].local_path)}
    IN  IF hits = {} THEN NoImage ELSE images[Min(hits)]

\* the fixed scan order of line 1046
PriorityOrder == <<"hero", "product", "team", "office">>

\* lines 1044-1053: the scan for an unspecified category
ScanPriority(byCat, used) ==
    LET hits == {k \in 1..Len(PriorityOrder) :
                    FirstUnused(byCat[PriorityOrder[k]], used) # NoImage}
    IN  IF hits = {} THEN NoImage
        ELSE FirstUnused(byCat[PriorityOrder[Min(hits)]], used)

\* the value of a call: the image returned and used_images after it
Took(img, used) == [image |-> img, used_images |-> used \cup {img.local_path}]
Gave(img, used) == [image |-> img, used_images |-> used]

\* as Reuse, with the two reuse loops in the other order
ReuseCategoryFirst(byCat, used, category) ==
    LET img == FirstReusable(byCat[category])
    IN  IF img # NoImage THEN Gave(img, used)
        ELSE Gave(FirstReusable(byCat[USER_UPLOAD]), used)

\* lines 1063-1074: reuse, user uploads before the requested category
Reuse(byCat, used, category) ==
    LET up == FirstReusable(byCat[USER_UPLOAD])
    IN  IF up # NoImage THEN Gave(up, used)
        ELSE Gave(FirstReusable(byCat[category]), used)

\* as GetImageForCategory, with the requested category tried before the uploads
GetImageCategoryFirst(byCat, used, category) ==
    LET img == IF category = NoCategory THEN ScanPriority(byCat, used)
               ELSE FirstUnused(byCat[category], used)
        up == FirstUnused(byCat[USER_UPLOAD], used)
    IN  IF img # NoImage THEN Took(img, used)
        ELSE IF up # NoImage THEN Took(up, used)
        ELSE IF category = NoCategory THEN Gave(NoImage, used)
        ELSE Reuse(byCat, used, category)

\* PptxGenerator._get_image_for_category
GetImageForCategory(byCat, used, category) ==
    LET up == FirstUnused(byCat[USER_UPLOAD], used)
    IN  IF up # NoImage THEN Took(up, used)
        ELSE IF category = NoCategory
        THEN LET any == ScanPriority(byCat, used)
             IN  IF any # NoImage THEN Took(any, used) ELSE Gave(NoImage, used)
        ELSE LET img == FirstUnused(byCat[category], used)
             IN  IF img # NoImage THEN Took(img, used)
                 ELSE Reuse(byCat, used, category)

----------------------------------------------------------------------------
(* models.py: SlideLayout, Stat, SlideContent.  A text is a sequence of     *)
(* one-character strings; the empty sequence is "" (and None, which the     *)
(* composers test the same way).                                            *)

SlideLayout ==
    {"title_slide", "bullet_points", "two_column", "image_left", "image_right",
     "section_divider", "quote", "stats", "thank_you"}

Stat(value, label) == [value |-> value, label |-> label]

\* SlideContent(layout=layout) with every other field at its default
SlideContent(layout) ==
    [layout |-> layout, title |-> <<>>, subtitle |-> <<>>, bullets |-> <<>>,
     body_text |-> <<>>, left_content |-> <<>>, right_content |-> <<>>,
     quote |-> <<>>, quote_author |-> <<>>, stats |-> <<>>,
     image_category |-> NoCategory, speaker_notes |-> <<>>]

----------------------------------------------------------------------------
(* generator.py: the stat parsing of _add_stats_slide, lines 809-824 *)

\* str.isdigit() and the regex class \d, on the model's characters
IsDigit(c) == c \in {"0", "1", "2", "3", "4", "5", "6", "7", "8", "9"}

\* the regex class [\d$%,.]
IsNumChar(c) == IsDigit(c) \/ c \in {"$", "%", ",", "."}

\* the regex class \s
IsSpace(c) == c = " "

\* the regex class \w: the model's characters are digits, letters and these
IsWordChar(c) == c \notin {" ", "-", "$", "%", ",", ".", "/", "*"}

\* the positions at which " - " starts in text
SepPositions(text) ==
    {i \in 1..(Len(text) - 2) :
        text[i] = " " /\ text[i + 1] = "-" /\ text[i + 2] = " "}

\* str.strip()
Strip(text) ==
    LET solid == {i \in 1..Len(text) : ~IsSpace(text[i])}
    IN  IF solid = {} THEN <<>>
        ELSE SubSeq(text, Min(solid), CHOOSE j \in solid : \A k \in solid : k <= j)

\* the length of the longest prefix of text[from..] whose characters satisfy Cls
RunLength(text, from, Cls(_)) ==
    LET stops == {i \in from..Len(text) : ~Cls(text[i])}
    IN  IF stops = {} THEN Len(text) - from + 1 ELSE Min(stops) - from

\* re.match(r'^([\d$%,.]+\w*)\s*(.*)$', bullet): the groups, or no match
LeadingToken(bullet) ==
    LET n1 == RunLength(bullet, 1, IsNumChar)
        n2 == RunLength(bullet, n1 + 1, IsWordChar)
        n3 == RunLength(bullet, n1 + n2 + 1, IsSpace)
    IN  IF n1 = 0 THEN [tag |-> "drop", value |-> <<>>, label |-> <<>>]
        ELSE [tag |-> "stat",
              value |-> SubSeq(bullet, 1, n1 + n2),
              label |-> SubSeq(bullet, n1 + n2 + n3 + 1, Len(bullet))]

\* lines 816-824 for one bullet: a Stat, nothing, or the IndexError of
\* bullet[0] on an empty string
ParseBullet(bullet) ==
    IF SepPositions(bullet) # {}
    THEN LET i == Min(SepPositions(bullet))
         IN  [tag |-> "stat",
              value |-> Strip(SubSeq(bullet, 1, i - 1)),
              label |-> Strip(SubSeq(bullet, i + 3, Len(bullet)))]
    ELSE IF bullet = <<>>
    THEN [tag |-> "IndexError", value |-> <<>>, label |-> <<>>]
    ELSE IF IsDigit(bullet[1]) \/ bullet[1] \in {"$", "%"}
    THEN LeadingToken(bullet)
    ELSE [tag |-> "drop", value |-> <<>>, label |-> <<>>]

\* seq[:n]
Take(seq, n) == SubSeq(seq, 1, IF Len(seq) < n THEN Len(seq) ELSE n)

\* the bullets the loop of line 815 looks at
MAX_STAT_BULLETS == 4

\* lines 810-824: stats_data, and whether building it raised
StatsData(content) ==
    IF content.stats # <<>> THEN [raised |-> FALSE, stats |-> content.stats]
    ELSE LET looked == Take(content.bullets, MAX_STAT_BULLETS)
             parsed == [i \in 1..Len(looked) |-> ParseBullet(looked[i])]
             errors == {i \in 1..Len(looked) : parsed[i].tag = "IndexError"}
             kept == SelectSeq(parsed, LAMBDA r : r.tag = "stat")
         IN  [raised |-> errors # {},
              stats |-> [i \in 1..Len(kept) |->
                            Stat(kept[i].value, kept[i].label)]]

----------------------------------------------------------------------------
(* generator.py: the composers.  A generator g is the record of the fields  *)
(* of one PptxGenerator: images_by_category, used_images, slide_count, the  *)
(* slides of g.prs, the brand's logo path, and the exception a composer     *)
(* raised ("" for none).  A slide is its shapes in the order they are added *)
(* and its notes; `record` is the slide_count under which it was created.    *)

Shape(kind, fill, text) == [kind |-> kind, fill |-> fill, text |-> text]

Slide(layout, g, shapes, notes) ==
    [layout |-> layout, record |-> g.slide_count, shapes |-> shapes,
     notes |-> notes]

ShapesIf(cond, shapes) == IF cond THEN shapes ELSE <<>>

\* Path.exists(): the files on disk
MissingStems == {"m"}
Exists(p) == p.stem \notin MissingStems

\* Image.open() succeeds and the image has a height: lines 1011-1013
BrokenStems == {"z"}
Openable(p) == p.stem \notin BrokenStems

\* Path.suffix.lower() == '.svg'
SuffixIsSvg(p) == p.ext \in {"svg", "SVG"}

\* _create_blank_slide, lines 130-139: the white background
Blank == <<Shape("background", "#ffffff", <<>>)>>

\* _add_gradient_shape, lines 141-152
Gradient(color1, color2) == <<Shape("gradient", color1, <<color2>>)>>

\* _add_accent_bar, lines 154-164
AccentBar == <<Shape("accent_bar", "accent", <<>>)>>

\* _add_logo behind the test `self.brand.logo_path and Path(...).exists()`
Logo(g) ==
    ShapesIf(Truthy(g.logo_path) /\ Exists(g.logo_path)
                /\ ~SuffixIsSvg(g.logo_path) /\ Openable(g.logo_path),
             <<Shape("logo", "", <<g.logo_path.stem>>)>>)

\* _add_image_to_slide, lines 1003-1032
AddImageToSlide(path) ==
    ShapesIf(Exists(path) /\ ~SuffixIsSvg(path) /\ Openable(path),
             <<Shape("picture", "", <<path.stem, path.ext>>)>>)

\* lines 526-532 and 602-608: the picture of an image slide
Picture(image) ==
    IF image # NoImage /\ Truthy(image.local_path) /\ Exists(image.local_path)
    THEN AddImageToSlide(image.local_path)
    ELSE <<>>

\* g with one more slide
WithSlide(g, slide) == [g EXCEPT !.slides = Append(@, slide)]

\* _add_title_slide, lines 166-242
AddTitleSlide(g, content) ==
    WithSlide(g, Slide("title_slide", g,
        Blank \o Gradient("primary", "darken(primary,0.3)")
            \o <<Shape("oval", "accent", <<>>)>>
            \o Logo(g)
            \o <<Shape("title", "", content.title)>>
            \o ShapesIf(content.subtitle # <<>>,
                        <<Shape("subtitle", "", content.subtitle)>>)
            \o <<Shape("line", "accent", <<>>)>>,
        content.speaker_notes))

\* str(i + 1) for the bullet numbers
NumberText == <<"1", "2", "3", "4", "5">>

\* the bullets a bullet slide shows
MAX_BULLETS == 5

\* lines 323-361: the three shapes of each of the first five bullets
BulletShapes(bullets) ==
    LET shown == Take(bullets, MAX_BULLETS)
        row(i) == <<Shape("num_circle",
                          IF i = 1 THEN "accent" ELSE "lighten(primary,0.6)",
                          <<>>),
                    Shape("num_box", "", <<NumberText[i]>>),
                    Shape("text_box", "", shown[i])>>
        rows[i \in 0..Len(shown)] == IF i = 0 THEN <<>> ELSE rows[i - 1] \o row(i)
    IN  rows[Len(shown)]

\* as UseAccentStyle, by the number of slides in the document
UseAccentStyleBySlides(g) == Len(g.slides) % 2 = 0

\* line 249: use_accent_style
UseAccentStyle(g) == g.slide_count % 2 = 0

\* _add_bullet_slide, lines 244-368
AddBulletSlide(g, content) ==
    WithSlide(g, Slide("bullet_points", g,
        Blank
            \o (IF UseAccentStyle(g)
                THEN Gradient("#ffffff", "lighten(primary,0.95)")
                        \o <<Shape("corner", "accent", <<>>)>>
                ELSE <<Shape("strip", "primary", <<>>)>>)
            \o AccentBar
            \o <<Shape("title", "", content.title)>>
            \o <<Shape("underline", "accent", <<>>)>>
            \o ShapesIf(content.subtitle # <<>>,
                        <<Shape("subtitle", "", content.subtitle)>>)
            \o BulletShapes(content.bullets)
            \o Logo(g),
        content.speaker_notes))

\* text.startswith("**") and "**" in text[2:]
StarPositions(text) ==
    {i \in 3..(Len(text) - 1) : text[i] = "*" /\ text[i + 1] = "*"}

HasHeader(text) ==
    /\ Len(text) >= 2
    /\ text[1] = "*" /\ text[2] = "*"
    /\ StarPositions(text) # {}

\* str.replace("(bullet) ", "\n(bullet) ")
BreakBullets(text) ==
    LET out[i \in 0..Len(text)] ==
            IF i = 0 THEN <<>>
            ELSE out[i - 1]
                    \o (IF text[i] = "@" /\ i < Len(text) /\ text[i + 1] = " "
                        THEN <<"/", "@">> ELSE <<text[i]>>)
    IN  out[Len(text)]

\* str.strip() of a text with line breaks
StripBreaks(text) ==
    LET solid == {i \in 1..Len(text) : text[i] \notin {" ", "/"}}
    IN  IF solid = {} THEN <<>>
        ELSE SubSeq(text, Min(solid), CHOOSE j \in solid : \A k \in solid : k <= j)

\* lines 437-469 and 472-503: the header and the body of one column
ColumnShapes(text, default) ==
    IF text = <<>> THEN <<>>
    ELSE IF HasHeader(text)
    THEN LET end == Min(StarPositions(text))
         IN  <<Shape("column_header", "", SubSeq(text, 3, end - 1)),
               Shape("column_body", "",
                     StripBreaks(BreakBullets(
                        Strip(SubSeq(text, end + 2, Len(text))))))>>
    ELSE <<Shape("column_header", "", default),
           Shape("column_body", "", StripBreaks(BreakBullets(text)))>>

\* _add_two_column_slide, lines 370-506
AddTwoColumnSlide(g, content) ==
    WithSlide(g, Slide("two_column", g,
        Blank \o AccentBar
            \o <<Shape("title", "", content.title),
                 Shape("left_card", "lighten(primary,0.9)", <<>>),
                 Shape("left_header", "primary", <<>>),
                 Shape("right_card", "lighten(accent,0.85)", <<>>),
                 Shape("right_header", "accent", <<>>)>>
            \o ColumnShapes(content.left_content, <<"A">>)
            \o ColumnShapes(content.right_content, <<"B">>),
        content.speaker_notes))

\* "\n".join(f"(bullet) {b}" for b in bullets); "@" stands for the bullet
\* character and "/" for the line break
JoinBullets(bullets) ==
    LET lines[i \in 0..Len(bullets)] ==
            IF i = 0 THEN <<>>
            ELSE lines[i - 1] \o (IF i = 1 THEN <<>> ELSE <<"/">>)
                    \o <<"@", " ">> \o bullets[i]
    IN  lines[Len(bullets)]

\* lines 563 and 628: content.body_text or the joined bullets
ContentText(content) ==
    IF content.body_text # <<>> THEN content.body_text
    ELSE JoinBullets(content.bullets)

\* the selection of lines 526 and 602, as the generator after it and the image
Selected(g, content) ==
    GetImageForCategory(g.images_by_category, g.used_images,
                        content.image_category)

\* _add_image_left_slide, lines 508-579
AddImageLeftSlide(g, content) ==
    LET sel == Selected(g, content)
    IN  WithSlide([g EXCEPT !.used_images = sel.used_images],
            Slide("image_left", g,
                Blank \o <<Shape("img_bg", "lighten(primary,0.85)", <<>>)>>
                    \o Picture(sel.image)
                    \o <<Shape("accent", "accent", <<>>),
                         Shape("title", "", content.title)>>
                    \o ShapesIf(ContentText(content) # <<>>,
                                <<Shape("body", "", ContentText(content))>>),
                content.speaker_notes))

\* _add_image_right_slide, lines 581-644
AddImageRightSlide(g, content) ==
    LET sel == Selected(g, content)
    IN  WithSlide([g EXCEPT !.used_images = sel.used_images],
            Slide("image_right", g,
                Blank \o AccentBar
                    \o <<Shape("img_bg", "lighten(secondary,0.85)", <<>>)>>
                    \o Picture(sel.image)
                    \o <<Shape("title", "", content.title)>>
                    \o ShapesIf(ContentText(content) # <<>>,
                                <<Shape("body", "", ContentText(content))>>),
                content.speaker_notes))

\* _add_section_divider, lines 646-712
AddSectionDivider(g, content) ==
    WithSlide(g, Slide("section_divider", g,
        Blank \o Gradient("secondary", "darken(secondary,0.4)")
            \o <<Shape("oval", "accent", <<>>),
                 Shape("title", "", content.title)>>
            \o ShapesIf(content.subtitle # <<>>,
                        <<Shape("subtitle", "", content.subtitle)>>)
            \o <<Shape("line", "accent", <<>>)>>,
        content.speaker_notes))

\* _add_quote_slide, lines 714-780
AddQuoteSlide(g, content) ==
    WithSlide(g, Slide("quote", g,
        Blank \o Gradient("lighten(primary,0.95)", "#ffffff")
            \o <<Shape("quote_mark", "accent", <<>>),
                 Shape("quote", "",
                       IF content.quote # <<>> THEN content.quote
                       ELSE IF content.body_text # <<>> THEN content.body_text
                       ELSE content.title)>>
            \o ShapesIf(content.quote_author # <<>>,
                        <<Shape("author", "accent", content.quote_author)>>)
            \o <<Shape("bar", "primary", <<>>)>>,
        content.speaker_notes))

\* the stats a stats slide shows
MAX_CARDS == 4

\* lines 837-881: the three shapes of each of the first four stats
CardShapes(stats) ==
    LET shown == Take(stats, MAX_CARDS)
        card(i) == <<Shape("card",
                           IF (i - 1) % 2 = 0 THEN "primary" ELSE "accent",
                           <<>>),
                     Shape("value", "", shown[i].value),
                     Shape("label", "", shown[i].label)>>
        cards[i \in 0..Len(shown)] ==
            IF i = 0 THEN <<>> ELSE cards[i - 1] \o card(i)
    IN  cards[Len(shown)]

\* lines 784-807: what _add_stats_slide has put on its slide before it parses
StatsHead(content) ==
    Blank \o Gradient("#ffffff", "lighten(primary,0.97)") \o AccentBar
        \o <<Shape("title", "", content.title)>>

\* _add_stats_slide, lines 782-894
AddStatsSlide(g, content) ==
    LET data == StatsData(content)
        head == WithSlide(g, Slide("stats", g, StatsHead(content), <<>>))
    IN  IF data.raised THEN [head EXCEPT !.raised = "IndexError"]
        ELSE IF Len(data.stats) = 0 THEN AddBulletSlide(head, content)
        ELSE WithSlide(g, Slide("stats", g,
                StatsHead(content) \o CardShapes(data.stats)
                    \o <<Shape("line", "accent", <<>>)>>,
                content.speaker_notes))

\* _add_thank_you_slide, lines 896-971
AddThankYouSlide(g, content) ==
    WithSlide(g, Slide("thank_you", g,
        Blank \o Gradient("primary", "darken(primary,0.3)")
            \o <<Shape("circle", "accent", <<>>),
                 Shape("circle", "accent", <<>>),
                 Shape("circle", "accent", <<>>)>>
            \o Logo(g)
            \o <<Shape("title", "",
                       IF content.title # <<>> THEN content.title
                       ELSE <<"T", "h", "a", "n", "k", " ", "Y", "o", "u">>)>>
            \o ShapesIf(content.body_text # <<>> \/ content.subtitle # <<>>,
                        <<Shape("contact", "",
                                IF content.body_text # <<>>
                                THEN content.body_text
                                ELSE content.subtitle)>>)
            \o <<Shape("line", "accent", <<>>)>>,
        content.speaker_notes))

\* as AddSlideTo, with the title composer as the default of the lookup
AddSlideToTitleDefault(g, content) ==
    CASE content.layout = "bullet_points" -> AddBulletSlide(g, content)
      [] content.layout = "two_column" -> AddTwoColumnSlide(g, content)
      [] content.layout = "image_left" -> AddImageLeftSlide(g, content)
      [] content.layout = "image_right" -> AddImageRightSlide(g, content)
      [] content.layout = "section_divider" -> AddSectionDivider(g, content)
      [] content.layout = "quote" -> AddQuoteSlide(g, content)
      [] content.layout = "stats" -> AddStatsSlide(g, content)
      [] content.layout = "thank_you" -> AddThankYouSlide(g, content)
      [] OTHER -> AddTitleSlide(g, content)

\* PptxGenerator._add_slide, lines 113-128
AddSlideTo(g, content) ==
    CASE content.layout = "title_slide" -> AddTitleSlide(g, content)
      [] content.layout = "bullet_points" -> AddBulletSlide(g, content)
      [] content.layout = "two_column" -> AddTwoColumnSlide(g, content)
      [] content.layout = "image_left" -> AddImageLeftSlide(g, content)
      [] content.layout = "image_right" -> AddImageRightSlide(g, content)
      [] content.layout = "section_divider" -> AddSectionDivider(g, content)
      [] content.layout = "quote" -> AddQuoteSlide(g, content)
      [] content.layout = "stats" -> AddStatsSlide(g, content)
      [] content.layout = "thank_you" -> AddThankYouSlide(g, content)
      [] OTHER -> AddBulletSlide(g, content)

\* one turn of the loop of generate, lines 102-104
ComposeNext(g, content) ==
    LET after == AddSlideTo(g, content)
    IN  IF after.raised # "" THEN after
        ELSE [after EXCEPT !.slide_count = @ + 1]

\* PptxGenerator.__init__, lines 77-91
NewGenerator(brand) ==
    [images_by_category |-> BuildImageLookup(brand.images),
     used_images |-> {},
     slide_count |-> 0,
     slides |-> <<>>,
     logo_path |-> brand.logo_path,
     raised |-> ""]

----------------------------------------------------------------------------
(* The variables a specification does not use keep these values.            *)

ParkHist ==
    /\ called = FALSE
    /\ ncalls = 0
    /\ category_arg = NoCategory
    /\ last_category = NoCategory
    /\ last_image = NoImage
    /\ prev_used = {}
    /\ returned = {}

ParkPure ==
    /\ op = ""
    /\ args = <<>>
    /\ result = <<>>

ParkRender ==
    /\ logo_path = NoPath
    /\ slide_count = 0
    /\ prs = <<>>
    /\ pc = "constructed"
    /\ error = ""
    /\ contents = <<>>
    /\ call_start = 0
    /\ saved = <<>>
    /\ regenerated = FALSE

----------------------------------------------------------------------------
(* The template style extractor (template/extractor.py).  A template is    *)
(* described by what python-pptx, lxml and zipfile read out of its bytes;  *)
(* colors are "#RRGGBB" strings and font names are sequences of words.     *)

\* an Optional[str] field holding None
NoValue == "None"
\* an Optional[BackgroundStyle] field holding None
NoBackground == [fill_type |-> NoValue]
\* the Optional[bytes] field holding None
NoBytes == [package |-> NoValue]
\* no font name: "" in ThemeFonts, a missing key in the shape-font dict
NoFont == <<>>

ThemeColorNames ==
    <<"dk1", "lt1", "dk2", "lt2", "accent1", "accent2", "accent3", "accent4",
      "accent5", "accent6", "hlink", "folHlink">>

ThemeColors ==
    [dk1 |-> "#000000", lt1 |-> "#FFFFFF", dk2 |-> "#1F497D", lt2 |-> "#EEECE1",
     accent1 |-> "#4F81BD", accent2 |-> "#C0504D", accent3 |-> "#9BBB59",
     accent4 |-> "#8064A2", accent5 |-> "#4BACC6", accent6 |-> "#F79646",
     hlink |-> "#0000FF", folHlink |-> "#800080"]

ThemeFonts ==
    [major_latin |-> <<"Calibri">>, minor_latin |-> <<"Calibri">>,
     major_ea |-> NoFont, minor_ea |-> NoFont,
     major_cs |-> NoFont, minor_cs |-> NoFont]

BackgroundStyle(fill_type) ==
    [fill_type |-> fill_type, solid_color |-> NoValue, gradient_colors |-> <<>>,
     gradient_angle |-> 0, picture_path |-> NoValue]

\* the geometry fields (left, top, width, height) are not modelled
PlaceholderInfo(idx, type) ==
    [idx |-> idx, type |-> type, font_name |-> NoFont, font_size |-> 0,
     font_color |-> NoValue, font_bold |-> NoValue]

ExtractedLayout(name, idx, placeholders, background) ==
    [name |-> name, idx |-> idx, placeholders |-> placeholders,
     background |-> background, shapes |-> <<>>]

ExtractedColorPalette ==
    [primary |-> NoValue, secondary |-> NoValue, accent |-> NoValue,
     background |-> NoValue, text |-> NoValue, all_colors |-> <<>>]

TemplateProfile ==
    [source_file |-> "", theme_colors |-> ThemeColors, theme_fonts |-> ThemeFonts,
     master_background |-> NoBackground, layouts |-> <<>>,
     extracted_images |-> <<>>, extracted_palette |-> ExtractedColorPalette,
     template_bytes |-> NoBytes]

\* ---- Counter ----
\* A Counter is modelled by the sequence of its increments.

Max(S) == CHOOSE x \in S : \A y \in S : y <= x

\* the keys, in insertion order
Keys(seq) ==
    LET keys[k \in 0..Len(seq)] ==
            IF k = 0 THEN <<>>
            ELSE IF \E j \in 1..(k - 1) : seq[j] = seq[k] THEN keys[k - 1]
            ELSE Append(keys[k - 1], seq[k])
    IN  keys[Len(seq)]

Count(seq, key) == Cardinality({i \in 1..Len(seq) : seq[i] = key})

\* Counter.most_common(): by descending count, ties in insertion order
MostCommon(seq) ==
    LET keys == Keys(seq)
        Before(i, j) ==
            \/ Count(seq, keys[i]) > Count(seq, keys[j])
            \/ Count(seq, keys[i]) = Count(seq, keys[j]) /\ i < j
        Rank(i) == Cardinality({j \in 1..Len(keys) : Before(j, i)}) + 1
    IN  [r \in 1..Len(keys) |-> keys[CHOOSE i \in 1..Len(keys) : Rank(i) = r]]

\* ---- theme ----

\* f"#{val}" on the attribute values the templates carry
Hash(val) ==
    CASE val = "112233" -> "#112233"
      [] val = "FFFFFF" -> "#FFFFFF"
      [] val = "cc0000" -> "#cc0000"
      [] val = "CC0000" -> "#CC0000"
      [] val = "003399" -> "#003399"
      [] val = "FFF8E1" -> "#FFF8E1"

\* _get_theme_xml: None when the theme part cannot be reached or parsed
GetThemeXml(fc) == fc.theme

\* lines 89-102: the color one clrScheme child declares, NoValue when the
\* child is absent or has neither srgbClr/@val nor sysClr/@lastClr
DeclaredColor(theme, color_name) ==
    IF color_name \notin DOMAIN theme.clrScheme THEN NoValue
    ELSE LET element == theme.clrScheme[color_name]
         IN  IF element.srgbClr # NoValue THEN Hash(element.srgbClr)
             ELSE IF element.sysClr # NoValue THEN Hash(element.sysClr)
             ELSE NoValue

ExtractThemeColors(fc) ==
    LET theme == GetThemeXml(fc)
    IN  IF ~theme.readable THEN ThemeColors
        ELSE [color_name \in DOMAIN ThemeColors |->
                IF DeclaredColor(theme, color_name) # NoValue
                THEN DeclaredColor(theme, color_name)
                ELSE ThemeColors[color_name]]

\* ---- fonts ----

\* str.startswith on words of the templates' vocabulary
WordStartsWith(word, prefix) ==
    word = prefix \/ (word = "Interstate" /\ prefix = "Inter")

\* font.startswith(base_family): base_family is one word
StartsWith(font, base_family) == WordStartsWith(font[1], base_family[1])

\* `needle in font`, for a needle without blanks
Contains(font, needle) ==
    \E i \in 1..Len(font) :
        font[i] = needle \/ (font[i] = "SemiBold" /\ needle = "Bold")

\* lines 162-195, on the counter the scan of lines 143-160 filled; a record
\* of NoFont stands for the empty dict
ExtractFontsFromShapes(fonts) ==
    IF fonts = <<>> THEN [heading |-> NoFont, body |-> NoFont]
    ELSE
    LET font_families == [i \in 1..Len(fonts) |-> <<fonts[i][1]>>]
        base_family == MostCommon(font_families)[1]
        names == Keys(fonts)
        IsHeading(font) == Contains(font, "Medium") \/ Contains(font, "Bold")
        IsBody(font) == Contains(font, "Light") \/ Contains(font, "Regular")
        headings == {i \in 1..Len(names) :
                        StartsWith(names[i], base_family) /\ IsHeading(names[i])}
        bodies == {i \in 1..Len(names) :
                        /\ StartsWith(names[i], base_family)
                        /\ ~IsHeading(names[i])
                        /\ IsBody(names[i])}
        heading_font == IF headings = {} THEN base_family
                        ELSE names[Max(headings)]
        body_font == IF bodies = {} THEN base_family ELSE names[Max(bodies)]
    IN  [heading |-> IF heading_font = base_family THEN MostCommon(fonts)[1]
                     ELSE heading_font,
         body |-> IF body_font = base_family THEN MostCommon(fonts)[1]
                  ELSE body_font]

\* the loop over self.prs.slides of lines 143-145 is outside any try
FontScanRaises(fc) == fc.slides = "broken"

ExtractThemeFonts(fc) ==
    LET shape_fonts == ExtractFontsFromShapes(fc.fonts)
        theme == GetThemeXml(fc)
        theme_major == IF theme.readable /\ theme.majorFont # NoFont
                       THEN theme.majorFont ELSE <<"Calibri">>
        theme_minor == IF theme.readable /\ theme.minorFont # NoFont
                       THEN theme.minorFont ELSE <<"Calibri">>
    IN  [ThemeFonts EXCEPT
            !.major_latin = IF shape_fonts.heading # NoFont
                            THEN shape_fonts.heading ELSE theme_major,
            !.minor_latin = IF shape_fonts.body # NoFont
                            THEN shape_fonts.body ELSE theme_minor]

\* ---- backgrounds and layouts ----

\* str(fill.type).replace("MSO_FILL_TYPE.", "").lower()
FillTypeName(type_str) ==
    CASE type_str = "MSO_FILL_TYPE.SOLID" -> "solid"
      [] type_str = "SOLID (1)" -> "solid (1)"
      [] type_str = "MSO_FILL_TYPE.GRADIENT" -> "gradient"

ExtractFillStyle(fill) ==
    LET fill_type == FillTypeName(fill.type)
        style == BackgroundStyle(fill_type)
    IN  IF fill_type = "solid"
        THEN [style EXCEPT !.solid_color = fill.rgb]
        ELSE IF fill_type = "gradient"
        THEN [style EXCEPT !.gradient_colors = fill.gradient_stops,
                           !.gradient_angle = fill.gradient_angle]
        ELSE style

\* lines 268-276 and 346-351: None when the fill has no type or reading it
\* raises
BackgroundOf(fill) ==
    IF fill.type \in {NoValue, "raises"} THEN NoBackground
    ELSE ExtractFillStyle(fill)

ExtractMasterBackground(fc) == BackgroundOf(fc.master_fill)

\* lines 316-343: a placeholder whose properties raise is skipped
ExtractPlaceholders(layout) ==
    LET kept == SelectSeq(layout.placeholders, LAMBDA ph : ph.readable)
    IN  [i \in 1..Len(kept) |-> PlaceholderInfo(kept[i].idx, kept[i].type)]

\* lines 308-364: the loop ends at the first layout that cannot be loaded
ExtractLayouts(fc) ==
    LET broken == {i \in 1..Len(fc.layouts) : fc.layouts[i].broken}
        n == IF broken = {} THEN Len(fc.layouts) ELSE Min(broken) - 1
    IN  [i \in 1..n |->
            ExtractedLayout(fc.layouts[i].name, i - 1,
                            ExtractPlaceholders(fc.layouts[i]),
                            BackgroundOf(fc.layouts[i].fill))]

\* ---- shape colors ----

\* int(color[0:2], 16), int(color[2:4], 16), int(color[4:6], 16)
Channels(color) ==
    CASE color = "#FFFFFF" -> <<255, 255, 255>>
      [] color = "#000000" -> <<0, 0, 0>>
      [] color = "#CC0000" -> <<204, 0, 0>>
      [] color = "#003399" -> <<0, 51, 153>>
      [] color = "#FFF8E1" -> <<255, 248, 225>>
      [] color = "#F0F0F0" -> <<240, 240, 240>>

MaxOf3(rgb) == Max({rgb[1], rgb[2], rgb[3]})
MinOf3(rgb) == Min({rgb[1], rgb[2], rgb[3]})

is_neutral(color) ==
    LET rgb == Channels(color)
    IN  \/ rgb \in {<<255, 255, 255>>, <<0, 0, 0>>}
        \/ /\ MaxOf3(rgb) - MinOf3(rgb) < 20
           /\ (MaxOf3(rgb) > 200 \/ MinOf3(rgb) < 55)

\* 1000 * 255 * luminance
Luminance(color) ==
    LET rgb == Channels(color)
    IN  299 * rgb[1] + 587 * rgb[2] + 114 * rgb[3]

is_dark(color) == Luminance(color) < 127500

is_light(color) == Luminance(color) > 178500

\* the first element of seq that satisfies Test, NoValue when there is none
FirstThat(seq, Test(_)) ==
    LET hits == {i \in 1..Len(seq) : Test(seq[i])}
    IN  IF hits = {} THEN NoValue ELSE seq[Min(hits)]

NthOr(seq, n) == IF Len(seq) >= n THEN seq[n] ELSE NoValue

\* as BuildPalette, without the filter of line 513
BuildPaletteKeepsNeutrals(fill_colors, text_colors, bg_colors) ==
    LET sorted_colors == MostCommon(fill_colors \o text_colors \o bg_colors)
        text_sorted == MostCommon(text_colors)
        bg_sorted == MostCommon(bg_colors)
        dark_text == FirstThat(text_sorted, is_dark)
        light_bg == FirstThat(bg_sorted, is_light)
    IN  [primary |-> NthOr(sorted_colors, 1),
         secondary |-> NthOr(sorted_colors, 2),
         accent |-> NthOr(sorted_colors, 3),
         background |-> IF light_bg # NoValue THEN light_bg
                        ELSE FirstThat(sorted_colors, is_light),
         text |-> IF dark_text # NoValue THEN dark_text
                  ELSE NthOr(text_sorted, 1),
         all_colors |-> Take(sorted_colors, 20)]

\* lines 508-551, on the three counters the scan of lines 446-471 filled
BuildPalette(fill_colors, text_colors, bg_colors) ==
    LET sorted_colors == MostCommon(fill_colors \o text_colors \o bg_colors)
        accent_colors == SelectSeq(sorted_colors, LAMBDA c : ~is_neutral(c))
        text_sorted == MostCommon(text_colors)
        bg_sorted == MostCommon(bg_colors)
        dark_text == FirstThat(text_sorted, is_dark)
        light_bg == FirstThat(bg_sorted, is_light)
    IN  [primary |-> NthOr(accent_colors, 1),
         secondary |-> NthOr(accent_colors, 2),
         accent |-> NthOr(accent_colors, 3),
         background |-> IF light_bg # NoValue THEN light_bg
                        ELSE FirstThat(sorted_colors, is_light),
         text |-> IF dark_text # NoValue THEN dark_text
                  ELSE NthOr(text_sorted, 1),
         all_colors |-> Take(sorted_colors, 20)]

ExtractShapeColors(fc) == BuildPalette(fc.fills, fc.texts, fc.bgs)

\* ---- embedded images ----

\* name.lower().endswith((".png", ".jpg", ".jpeg", ".gif"))
IsRasterName(entry) == entry.ext \in {"png", "PNG", "jpg", "JPG", "jpeg", "gif"}

\* lines 560-569: the media entries written out, as template_<name>
ExtractBackgroundImages(fc) ==
    LET media == SelectSeq(fc.media,
                    LAMBDA e : e.dir = "ppt/media/" /\ IsRasterName(e))
    IN  [i \in 1..Len(media) |->
            [prefix |-> "template_", name |-> media[i].name,
             ext |-> media[i].ext]]

\* ---- extractor ----

\* PptxPresentation(io.BytesIO(file_content)), line 41: what it raises, ""
\* when the bytes are a presentation package
OpenRaises(fc) ==
    CASE fc.package \in {"empty", "not_zip"} -> "BadZipFile"
      [] fc.package = "zip" -> "KeyError"
      [] OTHER -> ""

\* extract(), lines 43-62
ExtractProfile(fc, filename) ==
    [source_file |-> filename,
     theme_colors |-> ExtractThemeColors(fc),
     theme_fonts |-> ExtractThemeFonts(fc),
     master_background |-> ExtractMasterBackground(fc),
     layouts |-> ExtractLayouts(fc),
     extracted_images |-> ExtractBackgroundImages(fc),
     extracted_palette |-> ExtractShapeColors(fc),
     template_bytes |-> fc]

NoExtractor == [pc |-> "idle", file_content |-> NoBytes, filename |-> "",
                error |-> ""]

\* no value returned yet
NoProfile == [source_file |-> NoValue]

ParkExtract ==
    /\ extractor = NoExtractor
    /\ profile = NoProfile
    /\ output_dir = {}

\* the generate_pptx calls of SpecConcurrent
Callers == {1, 2}

IdleCall ==
    [pc |-> "idle", brand |-> [images |-> <<>>, logo_path |-> NoPath],
     g |-> [images_by_category |-> BuildImageLookup(<<>>), used_images |-> {},
            slide_count |-> 0, slides |-> <<>>, logo_path |-> NoPath,
            raised |-> ""],
     contents |-> <<>>, saved |-> <<>>]

ParkConc ==
    /\ calls = [i \in Callers |-> IdleCall]
    /\ interleaved = FALSE

----------------------------------------------------------------------------
(* SpecSelect: a generator is constructed for a brand, then its selector is *)
(* called with any sequence of categories.                                  *)

\* PptxGenerator.__init__ for the selector: lines 83-88
NewSelector(images) ==
    /\ brand_images = images
    /\ images_by_category = BuildImageLookup(images)
    /\ used_images = {}
    /\ called = FALSE
    /\ ncalls = 0
    /\ last_category = NoCategory
    /\ last_image = NoImage
    /\ prev_used = {}
    /\ returned = {}

InitSelect ==
    /\ \E images \in ImageLists(SelectCategories, SelectPaths, MaxImages) :
          NewSelector(images)
    /\ category_arg = NoCategory
    /\ ParkRender
    /\ ParkConc
    /\ ParkExtract
    /\ ParkPure

\* one call self._get_image_for_category(category)
Call(category) ==
    /\ LET r == GetImageForCategory(images_by_category, used_images, category)
       IN  /\ used_images' = r.used_images
           /\ last_image' = r.image
    /\ called' = TRUE
    /\ last_category' = category
    /\ prev_used' = used_images
    /\ returned' =
          IF last_image = NoImage THEN returned
          ELSE returned \cup {last_image.local_path}
    /\ UNCHANGED <<pureVars, extVars, concVars, brand_images, images_by_category, category_arg, renVars>>

Select(category) ==
    /\ Call(category)
    /\ UNCHANGED ncalls

NextSelect == \E category \in CategoryArgs : Select(category)

SpecSelect == InitSelect /\ [][NextSelect]_vars

----------------------------------------------------------------------------
(* SpecSelectSeq: a generator is constructed for a brand, then its selector *)
(* is called again and again with one category.                             *)

InitSelectSeq ==
    /\ \E images \in ImageLists(SeqCategories, SeqPaths, MaxPool) :
          NewSelector(images)
    /\ category_arg \in SeqArgs
    /\ ParkRender
    /\ ParkConc
    /\ ParkExtract
    /\ ParkPure

SelectAgain ==
    /\ ncalls < MaxCalls
    /\ Call(category_arg)
    /\ ncalls' = ncalls + 1

NextSelectSeq == SelectAgain

SpecSelectSeq == InitSelectSeq /\ [][NextSelectSeq]_vars

----------------------------------------------------------------------------
(* Spec: a PptxGenerator is constructed for a brand and generate() is       *)
(* called on it, any number of times.  The presentation of a call is chosen *)
(* record by record as the loop of generate() reaches it, which is the same *)
(* as choosing the list beforehand: generate() reads it once, in order.     *)

\* the texts of the SlideContent records
TITLE == <<"T">>
SUBTITLE == <<"S">>
BODY == <<"b", " ", "c">>
NOTES == <<"n">>

\* "7% - a": a value and a label around the separator
B_SEP == <<"7", "%", " ", "-", " ", "a">>
\* "$2M b": a leading numeric token
B_NUM == <<"$", "2", "M", " ", "b">>
\* "xy": neither
B_TEXT == <<"x", "y">>
\* "": the empty string
B_EMPTY == <<>>

StatsBullets ==
    { <<B_TEXT>>, <<B_EMPTY>>, <<B_SEP, B_NUM>>, <<B_TEXT, B_SEP>>,
      <<B_NUM, B_SEP, B_NUM, B_SEP, B_SEP>>,
      <<B_TEXT, B_TEXT, B_TEXT, B_TEXT, B_SEP>> }

\* the SlideContent records a presentation is made of
Contents ==
    {SlideContent(layout) : layout \in SlideLayout}
      \cup {[SlideContent("stats") EXCEPT !.title = TITLE, !.bullets = bullets] :
                bullets \in StatsBullets}
      \cup {[SlideContent("stats") EXCEPT
                !.title = TITLE,
                !.stats = <<Stat(<<"9">>, <<"a">>), Stat(<<"8">>, <<"b">>)>>,
                !.bullets = <<B_TEXT>>],
            [SlideContent("bullet_points") EXCEPT
                !.title = TITLE, !.subtitle = SUBTITLE,
                !.bullets = <<B_TEXT, B_SEP>>, !.speaker_notes = NOTES],
            [SlideContent("image_left") EXCEPT
                !.title = TITLE, !.body_text = BODY,
                !.image_category = "product"],
            [SlideContent("image_right") EXCEPT
                !.title = TITLE, !.bullets = <<B_TEXT, B_NUM>>],
            [SlideContent("two_column") EXCEPT
                !.title = TITLE,
                !.left_content = <<"*", "*", "H", "*", "*", " ", "x">>,
                !.right_content = <<"@", " ", "y">>]}

\* the brands a generator is constructed for
Brand(images, logo) == [images |-> images, logo_path |-> logo]

Brands ==
    { Brand(<<>>, NoPath),
      Brand(<<ScrapedImage(1, USER_UPLOAD, PngPath("a")),
              ScrapedImage(2, "product", PngPath("b"))>>, PngPath("l")),
      Brand(<<ScrapedImage(1, "hero", PngPath("m")),
              ScrapedImage(2, "product", SvgPath("d")),
              ScrapedImage(3, "product", PngPath("z")),
              ScrapedImage(4, "hero", PngPath("b"))>>, SvgPath("l")) }

\* the generator, as the record the composers work on
Gen ==
    [images_by_category |-> images_by_category,
     used_images |-> used_images,
     slide_count |-> slide_count,
     slides |-> prs,
     logo_path |-> logo_path,
     raised |-> ""]

\* generator = PptxGenerator(brand)
Init ==
    /\ \E brand \in Brands :
          LET g == NewGenerator(brand)
          IN  /\ brand_images = brand.images
              /\ images_by_category = g.images_by_category
              /\ used_images = g.used_images
              /\ slide_count = g.slide_count
              /\ prs = g.slides
              /\ logo_path = g.logo_path
    /\ pc = "constructed"
    /\ error = ""
    /\ contents = <<>>
    /\ call_start = 0
    /\ saved = <<>>
    /\ regenerated = FALSE
    /\ ParkHist
    /\ ParkConc
    /\ ParkExtract
    /\ ParkPure

\* generator.generate(presentation, output_path) is called
Generate ==
    /\ pc \in {"constructed", "returned"}
    /\ pc' = "composing"
    /\ call_start' = Len(contents)
    /\ regenerated' = (pc = "returned")
    /\ UNCHANGED <<pureVars, extVars, concVars, genVars, histVars, logo_path, slide_count, prs, error,
                   contents, saved>>

\* lines 102-104: the next record of presentation.slides
Compose(content) ==
    /\ pc = "composing"
    /\ Len(contents) < MaxSlides
    /\ \E g \in {ComposeNext(Gen, content)} :
           /\ used_images' = g.used_images
           /\ slide_count' = g.slide_count
           /\ prs' = g.slides
           /\ error' = g.raised
           /\ pc' = IF g.raised # "" THEN "raised" ELSE "composing"
    /\ contents' = Append(contents, content)
    /\ UNCHANGED <<pureVars, extVars, concVars, brand_images, images_by_category, histVars, logo_path,
                   call_start, saved, regenerated>>

\* lines 106-111: the loop is over, the document is saved
Save ==
    /\ pc = "composing"
    /\ saved' = prs
    /\ pc' = "returned"
    /\ UNCHANGED <<pureVars, extVars, concVars, genVars, histVars, logo_path, slide_count, prs, error,
                   contents, call_start, regenerated>>

\* line 109: prs.save raises
SaveFails ==
    /\ pc = "composing"
    /\ error' = "OSError"
    /\ pc' = "raised"
    /\ UNCHANGED <<pureVars, extVars, concVars, genVars, histVars, logo_path, slide_count, prs, contents,
                   call_start, saved, regenerated>>

Next ==
    \/ Generate
    \/ \E content \in Contents : Compose(content)
    \/ Save
    \/ SaveFails

Spec == Init /\ [][Next]_vars

----------------------------------------------------------------------------
(* SpecConcurrent: two generate_pptx calls, each in its own executor worker *)
(* (routes.py, lines 140-143), their steps interleaved in any order.  Each  *)
(* call constructs its own PptxGenerator (lines 1079-1080).                 *)

ConcContents ==
    {[SlideContent("image_left") EXCEPT !.title = TITLE],
     [SlideContent("image_right") EXCEPT
        !.title = TITLE, !.image_category = "product"],
     [SlideContent("bullet_points") EXCEPT
        !.title = TITLE, !.bullets = <<B_TEXT>>],
     [SlideContent("stats") EXCEPT !.title = TITLE, !.bullets = <<B_SEP>>]}

ConcBrands == {brand \in Brands : brand.images # <<>>}

\* as StateOf, with used_images and slide_count held once for all generators
\* (module-level or class-level state) instead of once per instance
StateOfShared(i) ==
    [calls[i].g EXCEPT
        !.used_images = UNION {calls[j].g.used_images : j \in Callers},
        !.slide_count =
            calls[1].g.slide_count + calls[2].g.slide_count]

\* the generator `self` of call i: the instance line 1079 constructed
StateOf(i) == calls[i].g

InitConcurrent ==
    /\ ParkConc
    /\ brand_images = <<>>
    /\ images_by_category = BuildImageLookup(<<>>)
    /\ used_images = {}
    /\ ParkHist
    /\ ParkRender
    /\ ParkExtract
    /\ ParkPure

\* generate_pptx(presentation, brand, output_path) is called: line 1079
CallGeneratePptx(i, brand) ==
    /\ calls[i].pc = "idle"
    /\ calls' = [calls EXCEPT ![i] =
          [pc |-> "composing", brand |-> brand, g |-> NewGenerator(brand),
           contents |-> <<>>, saved |-> <<>>]]
    /\ UNCHANGED <<pureVars, extVars, genVars, histVars, renVars, interleaved>>

\* lines 102-104 in call i: the next record of its presentation
ComposeIn(i, content) ==
    /\ calls[i].pc = "composing"
    /\ Len(calls[i].contents) < MaxConcSlides
    /\ \E g \in {ComposeNext(StateOf(i), content)} :
           calls' = [calls EXCEPT
              ![i].g = g,
              ![i].contents = Append(@, content),
              ![i].pc = IF g.raised # "" THEN "raised" ELSE "composing"]
    /\ interleaved' =
          (interleaved \/ \E j \in Callers \ {i} :
              calls[j].pc = "composing" /\ calls[j].contents # <<>>)
    /\ UNCHANGED <<pureVars, extVars, genVars, histVars, renVars>>

\* lines 106-111 in call i: its document is saved and the call returns
ReturnFrom(i) ==
    /\ calls[i].pc = "composing"
    /\ calls' = [calls EXCEPT ![i].pc = "returned",
                              ![i].saved = StateOf(i).slides]
    /\ UNCHANGED <<pureVars, extVars, genVars, histVars, renVars, interleaved>>

NextConcurrent ==
    \E i \in Callers :
        \/ \E brand \in ConcBrands : CallGeneratePptx(i, brand)
        \/ \E content \in ConcContents : ComposeIn(i, content)
        \/ ReturnFrom(i)

SpecConcurrent == InitConcurrent /\ [][NextConcurrent]_vars

----------------------------------------------------------------------------
(* SpecExtract: an extractor is constructed on template bytes, then        *)
(* extract() is called; extract_template_styles does both.                 *)

NoTheme ==
    [readable |-> FALSE, clrScheme |-> <<>>, majorFont |-> NoFont,
     minorFont |-> NoFont]

BareTheme == [NoTheme EXCEPT !.readable = TRUE]

DeclaredTheme ==
    [readable |-> TRUE,
     clrScheme |-> [color_name \in {"dk1", "lt1", "accent1", "accent2"} |->
        CASE color_name = "dk1" -> [srgbClr |-> NoValue, sysClr |-> "112233"]
          [] color_name = "lt1" -> [srgbClr |-> "FFFFFF", sysClr |-> "112233"]
          [] color_name = "accent1" -> [srgbClr |-> "cc0000", sysClr |-> NoValue]
          [] color_name = "accent2" -> [srgbClr |-> NoValue, sysClr |-> NoValue]],
     majorFont |-> <<"Georgia">>, minorFont |-> NoFont]

Themes == {NoTheme, BareTheme, DeclaredTheme}

NoFill ==
    [type |-> NoValue, rgb |-> NoValue, gradient_stops |-> <<>>,
     gradient_angle |-> 0]

Fills ==
    {NoFill,
     [NoFill EXCEPT !.type = "raises"],
     [NoFill EXCEPT !.type = "MSO_FILL_TYPE.SOLID", !.rgb = "#003399"],
     [NoFill EXCEPT !.type = "SOLID (1)", !.rgb = "#003399"],
     [NoFill EXCEPT !.type = "MSO_FILL_TYPE.GRADIENT",
                    !.gradient_stops = <<"#003399", "#FFFFFF">>,
                    !.gradient_angle = 90]}

TemplateLayouts ==
    {[name |-> "Title", broken |-> FALSE, fill |-> NoFill,
      placeholders |-> <<[idx |-> 0, type |-> "TITLE", readable |-> TRUE]>>],
     [name |-> "Content", broken |-> FALSE,
      fill |-> [NoFill EXCEPT !.type = "MSO_FILL_TYPE.SOLID", !.rgb = "#FFF8E1"],
      placeholders |-> <<[idx |-> 0, type |-> "TITLE", readable |-> TRUE],
                         [idx |-> 1, type |-> "BODY", readable |-> FALSE]>>],
     [name |-> "Broken", broken |-> TRUE, fill |-> NoFill,
      placeholders |-> <<>>]}

LayoutLists ==
    UNION {[1..n -> TemplateLayouts] : n \in 0..MaxLayouts}

MediaLists ==
    {<<>>,
     <<[dir |-> "ppt/media/", name |-> "image1", ext |-> "png"]>>,
     <<[dir |-> "ppt/media/", name |-> "image2", ext |-> "JPG"],
       [dir |-> "ppt/media/", name |-> "image3", ext |-> "emf"],
       [dir |-> "docProps/", name |-> "thumbnail", ext |-> "jpeg"]>>}

FontCounters ==
    {<<>>,
     <<<<"Arial">>>>,
     <<<<"Inter", "Bold">>, <<"Inter", "Light">>, <<"Inter">>>>,
     <<<<"Arial">>, <<"Interstate", "Bold">>, <<"Inter">>, <<"Inter">>>>,
     <<<<"Arial">>, <<"Inter", "Light">>, <<"Arial">>, <<"Inter", "Thin">>,
       <<"Inter", "Thin">>>>}

ColorCounters ==
    {[fills |-> <<>>, texts |-> <<>>, bgs |-> <<>>],
     [fills |-> <<"#CC0000", "#003399", "#CC0000">>, texts |-> <<"#000000">>,
      bgs |-> <<"#FFFFFF">>],
     [fills |-> <<"#F0F0F0", "#FFF8E1">>, texts |-> <<"#FFFFFF", "#FFFFFF">>,
      bgs |-> <<"#003399">>],
     [fills |-> <<"#FFFFFF", "#CC0000", "#003399", "#FFF8E1">>,
      texts |-> <<"#CC0000">>, bgs |-> <<>>]}

\* bytes that are no presentation package: b"", bytes that are no zip
\* archive, a zip archive without the package's parts
Unreadable(package) ==
    [package |-> package, theme |-> NoTheme, master_fill |-> NoFill,
     layouts |-> <<>>, slides |-> "ok", media |-> <<>>, fonts |-> <<>>,
     fills |-> <<>>, texts |-> <<>>, bgs |-> <<>>]

Packages ==
    {[package |-> "pptx", theme |-> theme, master_fill |-> fill,
      layouts |-> layouts, slides |-> slides, media |-> media,
      fonts |-> fonts, fills |-> colors.fills, texts |-> colors.texts,
      bgs |-> colors.bgs] :
        theme \in Themes, fill \in Fills, layouts \in LayoutLists,
        slides \in {"ok", "broken"}, media \in MediaLists,
        fonts \in FontCounters, colors \in ColorCounters}

FileContents ==
    {Unreadable("empty"), Unreadable("not_zip"), Unreadable("zip")}
        \cup Packages

Filenames == {"", "deck.pptx"}

InitExtract ==
    /\ ParkExtract
    /\ ParkPure
    /\ brand_images = <<>>
    /\ images_by_category = BuildImageLookup(<<>>)
    /\ used_images = {}
    /\ ParkHist
    /\ ParkRender
    /\ ParkConc

\* PptxTemplateExtractor(file_content, filename, output_dir), lines 36-41
Construct ==
    /\ extractor.pc = "idle"
    /\ \E file_content \in FileContents, filename \in Filenames :
          extractor' =
             [pc |-> IF OpenRaises(file_content) # "" THEN "raised"
                     ELSE "constructed",
              file_content |-> file_content, filename |-> filename,
              error |-> OpenRaises(file_content)]
    /\ UNCHANGED <<profile, output_dir>>
    /\ UNCHANGED <<pureVars, genVars, histVars, renVars, concVars>>

\* extractor.extract(), lines 43-62
Extract ==
    /\ extractor.pc = "constructed"
    /\ IF FontScanRaises(extractor.file_content)
       THEN /\ extractor' = [extractor EXCEPT !.pc = "raised",
                                               !.error = "KeyError"]
            /\ UNCHANGED <<profile, output_dir>>
       ELSE /\ extractor' = [extractor EXCEPT !.pc = "returned"]
            /\ profile' = ExtractProfile(extractor.file_content,
                                         extractor.filename)
            /\ output_dir' = output_dir \cup
                  Range(ExtractBackgroundImages(extractor.file_content))
    /\ UNCHANGED <<pureVars, genVars, histVars, renVars, concVars>>

\* extract_template_styles(file_content, filename, output_dir), lines 576-581
ExtractTemplateStyles ==
    /\ extractor.pc = "idle"
    /\ \E file_content \in FileContents, filename \in Filenames :
          LET raised == IF OpenRaises(file_content) # ""
                        THEN OpenRaises(file_content)
                        ELSE IF FontScanRaises(file_content) THEN "KeyError"
                        ELSE ""
          IN  /\ extractor' =
                   [pc |-> IF raised # "" THEN "raised" ELSE "returned",
                    file_content |-> file_content, filename |-> filename,
                    error |-> raised]
              /\ IF raised # "" THEN UNCHANGED <<profile, output_dir>>
                 ELSE /\ profile' = ExtractProfile(file_content, filename)
                      /\ output_dir' = output_dir \cup
                            Range(ExtractBackgroundImages(file_content))
    /\ UNCHANGED <<pureVars, genVars, histVars, renVars, concVars>>

NextExtract ==
    \/ Construct
    \/ Extract
    \/ ExtractTemplateStyles

SpecExtract == InitExtract /\ [][NextExtract]_vars

----------------------------------------------------------------------------
(* SpecDispatch: the slides of a presentation are parsed from a response    *)
(* (content/generator.py) or built by the caller, then rendered.  `args`    *)
(* holds the layout each slide was given and `result` the presentation.     *)

\* layout strings that are no SlideLayout value
UnrecognizedTags == {"hero_banner", "TITLE_SLIDE", ""}

\* slide_data of a response: with or without the "layout" key
SlideData ==
    {[has_layout |-> TRUE, layout |-> tag] :
        tag \in SlideLayout \cup UnrecognizedTags}
      \cup {[has_layout |-> FALSE, layout |-> NoValue]}

\* content/generator.py, lines 281-285
ParseLayout(slide_data) ==
    LET layout_str == IF slide_data.has_layout THEN slide_data.layout
                      ELSE "bullet_points"
    IN  IF layout_str \in SlideLayout THEN layout_str ELSE "bullet_points"

\* the fields the slides of SpecDispatch carry besides the layout
Filled(content) ==
    [content EXCEPT !.title = TITLE, !.bullets = <<B_SEP>>,
                    !.speaker_notes = NOTES]

InitDispatch ==
    /\ LET brand == CHOOSE b \in Brands : b.logo_path = PngPath("l")
           g == NewGenerator(brand)
       IN  /\ brand_images = brand.images
           /\ images_by_category = g.images_by_category
           /\ used_images = g.used_images
           /\ slide_count = g.slide_count
           /\ prs = g.slides
           /\ logo_path = g.logo_path
    /\ pc = "parsing"
    /\ error = ""
    /\ contents = <<>>
    /\ call_start = 0
    /\ saved = <<>>
    /\ regenerated = FALSE
    /\ op = ""
    /\ args = <<>>
    /\ result = <<>>
    /\ ParkHist
    /\ ParkConc
    /\ ParkExtract

\* one turn of the loop of _parse_response, lines 280-306
ParseSlide ==
    /\ pc = "parsing"
    /\ Len(args) < MaxTags
    /\ \E slide_data \in SlideData :
          /\ args' = Append(args, [parsed |-> TRUE, data |-> slide_data])
          /\ result' = Append(result,
                              Filled(SlideContent(ParseLayout(slide_data))))
    /\ UNCHANGED <<op, genVars, histVars, renVars, concVars, extVars>>

\* a record the caller builds itself; assigning to content.layout is not
\* validated, so the tag can be any string
BuildSlide ==
    /\ pc = "parsing"
    /\ Len(args) < MaxTags
    /\ \E tag \in SlideLayout \cup UnrecognizedTags :
          /\ args' = Append(args,
                [parsed |-> FALSE, data |-> [has_layout |-> TRUE, layout |-> tag]])
          /\ result' = Append(result, Filled(SlideContent(tag)))
    /\ UNCHANGED <<op, genVars, histVars, renVars, concVars, extVars>>

\* generator.generate(presentation, output_path) is called
GenerateParsed ==
    /\ pc = "parsing"
    /\ pc' = "composing"
    /\ UNCHANGED <<pureVars, extVars, concVars, genVars, histVars, logo_path,
                   slide_count, prs, error, contents, saved, call_start,
                   regenerated>>

\* lines 102-104: the next record of presentation.slides
ComposeParsed ==
    /\ pc = "composing"
    /\ Len(contents) < Len(result)
    /\ \E g \in {ComposeNext(Gen, result[Len(contents) + 1])} :
           /\ used_images' = g.used_images
           /\ slide_count' = g.slide_count
           /\ prs' = g.slides
           /\ error' = g.raised
           /\ pc' = IF g.raised # "" THEN "raised" ELSE "composing"
    /\ contents' = Append(contents, result[Len(contents) + 1])
    /\ UNCHANGED <<pureVars, extVars, concVars, brand_images, images_by_category,
                   histVars, logo_path, call_start, saved, regenerated>>

\* lines 106-111: the loop is over, the document is saved
SaveParsed ==
    /\ pc = "composing"
    /\ Len(contents) = Len(result)
    /\ saved' = prs
    /\ pc' = "returned"
    /\ UNCHANGED <<pureVars, extVars, concVars, genVars, histVars, logo_path,
                   slide_count, prs, error, contents, call_start, regenerated>>

NextDispatch ==
    \/ ParseSlide
    \/ BuildSlide
    \/ GenerateParsed
    \/ ComposeParsed
    \/ SaveParsed

SpecDispatch == InitDispatch /\ [][NextDispatch]_vars

----------------------------------------------------------------------------
(* SpecVector: the selector is called on a brand whose images include       *)
(* vector files with the extension in either letter case.                   *)

VectorCategories == {USER_UPLOAD, "product"}
VectorPaths == {PngPath("a"), SvgPath("d"), [stem |-> "e", ext |-> "SVG"]}

InitVector ==
    /\ \E images \in ImageLists(VectorCategories, VectorPaths, MaxImages) :
          NewSelector(images)
    /\ category_arg = NoCategory
    /\ ParkRender
    /\ ParkConc
    /\ ParkExtract
    /\ ParkPure

SpecVector == InitVector /\ [][NextSelect]_vars

----------------------------------------------------------------------------
(* SpecGenerate: generate() is called with a presentation given beforehand  *)
(* (`args`), once or twice on the same generator; `contents` holds the      *)
(* records composed so far, over both calls.                                *)

Presentations == UNION {[1..n -> Contents] : n \in 0..MaxSlides}

InitGenerate ==
    /\ \E brand \in Brands :
          LET g == NewGenerator(brand)
          IN  /\ brand_images = brand.images
              /\ images_by_category = g.images_by_category
              /\ used_images = g.used_images
              /\ slide_count = g.slide_count
              /\ prs = g.slides
              /\ logo_path = g.logo_path
    /\ pc = "constructed"
    /\ error = ""
    /\ contents = <<>>
    /\ call_start = 0
    /\ saved = <<>>
    /\ regenerated = FALSE
    /\ op = ""
    /\ args \in Presentations
    /\ result = <<>>
    /\ ParkHist
    /\ ParkConc
    /\ ParkExtract

\* the number of records the current call has composed
ComposedInCall == Len(contents) - call_start

\* as LoopDone, with the save of lines 107-109 inside the loop body
LoopDoneAfterFirst == ComposedInCall >= 1 \/ Len(args) = 0

\* line 102: the for loop has gone through presentation.slides
LoopDone == ComposedInCall = Len(args)

\* generator.generate(presentation, output_path) is called
GenerateGiven ==
    /\ \/ pc = "constructed"
       \/ pc = "returned" /\ ~regenerated
    /\ pc' = "composing"
    /\ call_start' = Len(contents)
    /\ regenerated' = (pc = "returned")
    /\ UNCHANGED <<pureVars, extVars, concVars, genVars, histVars, logo_path,
                   slide_count, prs, error, contents, saved>>

\* lines 102-104: the next record of presentation.slides
ComposeGiven ==
    /\ pc = "composing"
    /\ ComposedInCall < Len(args)
    /\ \E g \in {ComposeNext(Gen, args[ComposedInCall + 1])} :
           /\ used_images' = g.used_images
           /\ slide_count' = g.slide_count
           /\ prs' = g.slides
           /\ error' = g.raised
           /\ pc' = IF g.raised # "" THEN "raised" ELSE "composing"
    /\ contents' = Append(contents, args[ComposedInCall + 1])
    /\ UNCHANGED <<pureVars, extVars, concVars, brand_images, images_by_category,
                   histVars, logo_path, call_start, saved, regenerated>>

\* lines 106-111: the loop is over, the document is saved
SaveGiven ==
    /\ pc = "composing"
    /\ LoopDone
    /\ saved' = prs
    /\ pc' = "returned"
    /\ UNCHANGED <<pureVars, extVars, concVars, genVars, histVars, logo_path,
                   slide_count, prs, error, contents, call_start, regenerated>>

\* line 109: prs.save raises
SaveGivenFails ==
    /\ pc = "composing"
    /\ LoopDone
    /\ error' = "OSError"
    /\ pc' = "raised"
    /\ UNCHANGED <<pureVars, extVars, concVars, genVars, histVars, logo_path,
                   slide_count, prs, contents, call_start, saved, regenerated>>

NextGenerate ==
    \/ GenerateGiven
    \/ ComposeGiven
    \/ SaveGiven
    \/ SaveGivenFails

SpecGenerate == InitGenerate /\ [][NextGenerate]_vars

----------------------------------------------------------------------------
(* SpecJob: one job of the API (api/routes.py).  `args` is what              *)
(* generate_presentation stored for the job and put in the request, `op` is *)
(* where process_presentation stands (each await is a step), and `result`   *)
(* is jobs[job_id] together with the coroutine's locals: `analyzed` is what *)
(* analyze_brand returned and `handed` what generate_content was given.     *)
(* Progress is in hundredths; `history` lists the progress values in the    *)
(* order assigned.                                                          *)

\* jobs[job_id]["uploaded_images"], lines 193-215: the accepted image files
\* in upload order
UploadedImage(k, stem) == ScrapedImage(10 + k, USER_UPLOAD, PngPath(stem))

UploadedLists ==
    UNION {{[k \in 1..n |-> UploadedImage(k, stems[k])] :
                stems \in [1..n -> {"u", "v"}]} : n \in 0..MaxUploads}

\* template_content: None (no template file), b"" (an empty file), or bytes
TemplateContents == {"None", "empty", "pptx"}

\* `if template_content:`, line 48
HasTemplateContent(job_args) == job_args.template_content = "pptx"

\* lines 171-178: a job is only created with a url or a template file name
JobArgs ==
    {a \in [has_url : BOOLEAN, template_content : TemplateContents,
            uploaded_images : UploadedLists] :
        a.has_url \/ a.template_content # "None"}

\* BrandProfile, as far as the merge step is concerned
BrandProfile(name, colors, fonts, images) ==
    [company_name |-> name, colors |-> colors, fonts |-> fonts,
     images |-> images]

NoBrandProfile == BrandProfile("None", "None", "None", <<>>)

\* what analyze_brand returns (analyzer.py, lines 85-95): the image lists
ScrapedLists ==
    {<<>>,
     <<ScrapedImage(1, "hero", PngPath("a"))>>,
     <<ScrapedImage(1, "product", PngPath("b")),
       ScrapedImage(2, "hero", PngPath("a"))>>}

ScrapedProfiles ==
    {BrandProfile("Acme", "scraped", "scraped", images) :
        images \in ScrapedLists}

\* str(e) of the exceptions the collaborators raise; it is empty for an
\* exception raised without arguments
ErrorMessages == {"Timeout 30000ms exceeded", "string index out of range", ""}

\* BrandAnalyzer defines neither merge_with_template nor
\* create_profile_from_template (analyzer.py, lines 49-95 and 97-396): the
\* attribute lookups of routes.py lines 88 and 95 raise
MergeWithTemplateError ==
    "'BrandAnalyzer' object has no attribute 'merge_with_template'"
CreateProfileFromTemplateError ==
    "'BrandAnalyzer' object has no attribute 'create_profile_from_template'"

\* lines 242-252
NewJob ==
    [status |-> "pending", progress |-> 0, error |-> "None",
     brand_profile |-> NoBrandProfile, output_path |-> "None",
     template_profile |-> "None", file_saved |-> FALSE,
     analyzed |-> NoBrandProfile, handed |-> NoBrandProfile,
     history |-> <<0>>]

\* jobs[job_id]["status"] = ...; jobs[job_id]["progress"] = ...
Progress(job, status, progress) ==
    [job EXCEPT !.status = status, !.progress = progress,
                !.history = Append(@, progress)]

\* as Failed, with the progress set back to zero
FailedResetsProgress(job, e) ==
    [job EXCEPT !.status = "failed", !.error = e, !.progress = 0,
                !.history = Append(@, 0)]

\* the except clause, lines 153-157
Failed(job, e) == [job EXCEPT !.status = "failed", !.error = e]

\* as PrependUploads, appending the uploads after the other images
AppendUploads(uploaded_images, brand_profile) ==
    IF uploaded_images # <<>>
    THEN [brand_profile EXCEPT !.images = @ \o uploaded_images]
    ELSE brand_profile

\* lines 101-104
PrependUploads(uploaded_images, brand_profile) ==
    IF uploaded_images # <<>>
    THEN [brand_profile EXCEPT !.images = uploaded_images \o @]
    ELSE brand_profile

InitJob ==
    /\ op = "queued"
    /\ args \in JobArgs
    /\ result = NewJob
    /\ brand_images = <<>>
    /\ images_by_category = BuildImageLookup(<<>>)
    /\ used_images = {}
    /\ ParkHist
    /\ ParkRender
    /\ ParkConc
    /\ ParkExtract

JobStep(next_op, job) ==
    /\ op' = next_op
    /\ result' = job
    /\ UNCHANGED <<args, genVars, histVars, renVars, concVars, extVars>>

\* lines 63-98, up to the first await: the scrape is started, or the profile
\* is to be made from the template alone
ScrapeOrCreate(job) ==
    IF args.has_url
    THEN JobStep("scraping", Progress(job, "scraping", 20))
    ELSE JobStep("done", Failed(Progress(job, "analyzing", 35),
                                CreateProfileFromTemplateError))

\* lines 35-57: the task starts
Start ==
    /\ op = "queued"
    /\ IF HasTemplateContent(args)
       THEN JobStep("extracting", Progress(result, "analyzing", 5))
       ELSE ScrapeOrCreate(result)

\* lines 53-61: extract_template_styles returns
ExtractReturns ==
    /\ op = "extracting"
    /\ JobStep("template_done",
               [Progress(result, "analyzing", 15)
                    EXCEPT !.template_profile = "profile"])

\* line 61: the sleep is over
TemplateDone ==
    /\ op = "template_done"
    /\ ScrapeOrCreate(result)

\* lines 70-75: scrape_website returns
ScrapeReturns ==
    /\ op = "scraping"
    /\ JobStep("scraped", Progress(result, "scraping", 30))

\* lines 75-83: the sleep is over
Scraped ==
    /\ op = "scraped"
    /\ JobStep("analyzing", Progress(result, "analyzing", 35))

\* lines 83-111: analyze_brand returns
AnalyzeReturns ==
    /\ op = "analyzing"
    /\ \E scraped \in ScrapedProfiles :
          IF result.template_profile # "None"
          THEN JobStep("done", Failed(result, MergeWithTemplateError))
          ELSE JobStep("analyzed",
                  [Progress(result, result.status, 40) EXCEPT
                      !.analyzed = scraped,
                      !.brand_profile =
                          PrependUploads(args.uploaded_images, scraped)])

\* lines 111-124: the sleep is over, generate_content is called
Analyzed ==
    /\ op = "analyzed"
    /\ JobStep("generating",
               [Progress(result, "generating", 45)
                    EXCEPT !.handed = result.brand_profile])

\* lines 119-129: generate_content returns
ContentReturns ==
    /\ op = "generating"
    /\ JobStep("generated", Progress(result, "generating", 70))

\* lines 129-143: the sleep is over, generate_pptx is called
Generated ==
    /\ op = "generated"
    /\ JobStep("building", Progress(result, "building", 75))

\* lines 141-151: generate_pptx returns
PptxReturns ==
    /\ op = "building"
    /\ JobStep("done",
               [Progress(result, "completed", 100)
                    EXCEPT !.file_saved = TRUE,
                           !.output_path = "presentation.pptx"])

\* a collaborator raises: extract_template_styles, scrape_website,
\* analyze_brand, generate_content or generate_pptx
CollaboratorRaises ==
    /\ op \in {"extracting", "scraping", "analyzing", "generating", "building"}
    /\ \E e \in ErrorMessages : JobStep("done", Failed(result, e))

NextJob ==
    \/ Start
    \/ ExtractReturns
    \/ TemplateDone
    \/ ScrapeReturns
    \/ Scraped
    \/ AnalyzeReturns
    \/ Analyzed
    \/ ContentReturns
    \/ Generated
    \/ PptxReturns
    \/ CollaboratorRaises

SpecJob == InitJob /\ [][NextJob]_vars

\* the event loop runs the task for as long as it has a step to take
SpecJobFair == SpecJob /\ WF_vars(NextJob)

----------------------------------------------------------------------------
(* generator.py: color math.  A hex color is the sequence of its characters *)
(* and a factor is a number of tenths; on the factors of ColorFactors the   *)
(* float arithmetic of the code agrees with the integer arithmetic here.    *)

HexDigits ==
    <<"0", "1", "2", "3", "4", "5", "6", "7", "8", "9",
      "a", "b", "c", "d", "e", "f">>

UpperHexDigits ==
    <<"0", "1", "2", "3", "4", "5", "6", "7", "8", "9",
      "A", "B", "C", "D", "E", "F">>

\* int(c, 16) of one character, in either letter case
HexValue(c) ==
    CHOOSE v \in 0..15 : HexDigits[v + 1] = c \/ UpperHexDigits[v + 1] = c

\* int(text[from:from + 2], 16)
ParseByte(text, from) == 16 * HexValue(text[from]) + HexValue(text[from + 1])

\* f"{n:02x}"
FormatByte(n) == <<HexDigits[(n \div 16) + 1], HexDigits[(n % 16) + 1]>>

\* str.lstrip("#")
LStripHash(text) ==
    LET kept == {i \in 1..Len(text) : text[i] # "#"}
    IN  IF kept = {} THEN <<>> ELSE SubSeq(text, Min(kept), Len(text))

\* f"#{r:02x}{g:02x}{b:02x}"
FormatColor(r, g, b) ==
    <<"#">> \o FormatByte(r) \o FormatByte(g) \o FormatByte(b)

\* lighten_color, lines 38-49: int(v + (255 - v) * factor) per channel
lighten_color(hex_color, tenths) ==
    LET hex == LStripHash(hex_color)
        Lift(v) == (v * 10 + (255 - v) * tenths) \div 10
    IN  FormatColor(Lift(ParseByte(hex, 1)), Lift(ParseByte(hex, 3)),
                    Lift(ParseByte(hex, 5)))

\* darken_color, lines 52-58: int(v * (1 - factor)) per channel
darken_color(hex_color, tenths) ==
    LET hex == LStripHash(hex_color)
        Drop(v) == (v * (10 - tenths)) \div 10
    IN  FormatColor(Drop(ParseByte(hex, 1)), Drop(ParseByte(hex, 3)),
                    Drop(ParseByte(hex, 5)))

----------------------------------------------------------------------------
(* SpecColor: lighten_color or darken_color is applied to a hex color.      *)

\* the two characters of a channel
ChannelTexts ==
    {<<"0", "0">>, <<"f", "f">>, <<"F", "F">>, <<"4", "F">>, <<"a", "0">>,
     <<"7", "f">>}

HexColors ==
    {<<"#">> \o r \o g \o b : r \in ChannelTexts, g \in ChannelTexts,
                             b \in ChannelTexts}

\* factors in tenths: 0, the default of darken_color, the default of
\* lighten_color, 1
ColorFactors == {0, 2, 3, 10}

InitColor ==
    /\ op = ""
    /\ args \in [hex_color : HexColors, factor : ColorFactors]
    /\ result = <<>>
    /\ brand_images = <<>>
    /\ images_by_category = BuildImageLookup(<<>>)
    /\ used_images = {}
    /\ ParkHist
    /\ ParkRender
    /\ ParkConc
    /\ ParkExtract

LightenColor ==
    /\ op = ""
    /\ args.factor # 2
    /\ op' = "lighten_color"
    /\ result' = lighten_color(args.hex_color, args.factor)
    /\ UNCHANGED <<args, genVars, histVars, renVars, concVars, extVars>>

DarkenColor ==
    /\ op = ""
    /\ args.factor # 3
    /\ op' = "darken_color"
    /\ result' = darken_color(args.hex_color, args.factor)
    /\ UNCHANGED <<args, genVars, histVars, renVars, concVars, extVars>>

NextColor == LightenColor \/ DarkenColor

SpecColor == InitColor /\ [][NextColor]_vars

----------------------------------------------------------------------------
(* SpecPalette: the palette is built from the colors counted in a template. *)

PaletteColors ==
    {"#FFFFFF", "#000000", "#CC0000", "#003399", "#FFF8E1", "#F0F0F0"}

\* the increments of a counter, at most n of them
Observations(n) == UNION {[1..k -> PaletteColors] : k \in 0..n}

InitPalette ==
    /\ op = ""
    /\ args \in [fill_colors : Observations(MaxObs),
                 text_colors : Observations(1),
                 bg_colors : Observations(1)]
    /\ result = <<>>
    /\ brand_images = <<>>
    /\ images_by_category = BuildImageLookup(<<>>)
    /\ used_images = {}
    /\ ParkHist
    /\ ParkRender
    /\ ParkConc
    /\ ParkExtract

\* _extract_shape_colors, lines 508-551
ShapeColors ==
    /\ op = ""
    /\ op' = "_extract_shape_colors"
    /\ result' = BuildPalette(args.fill_colors, args.text_colors, args.bg_colors)
    /\ UNCHANGED <<args, genVars, histVars, renVars, concVars, extVars>>

NextPalette == ShapeColors

SpecPalette == InitPalette /\ [][NextPalette]_vars

----------------------------------------------------------------------------
(* SpecStat: one bullet of a stats record goes through the parsing of       *)
(* _add_stats_slide, lines 816-824.                                         *)

BulletChars == {"7", "$", "x", " ", "-", "."}

BulletTexts == UNION {[1..n -> BulletChars] : n \in 0..MaxBulletLen}

InitStat ==
    /\ op = ""
    /\ args \in BulletTexts
    /\ result = <<>>
    /\ brand_images = <<>>
    /\ images_by_category = BuildImageLookup(<<>>)
    /\ used_images = {}
    /\ ParkHist
    /\ ParkRender
    /\ ParkConc
    /\ ParkExtract

\* lines 816-824 for the bullet
ParseStat ==
    /\ op = ""
    /\ op' = "parse"
    /\ result' = ParseBullet(args)
    /\ UNCHANGED <<args, genVars, histVars, renVars, concVars, extVars>>

NextStat == ParseStat

SpecStat == InitStat /\ [][NextStat]_vars

----------------------------------------------------------------------------
(* generator.py: the sizing of _add_image_to_slide, lines 1010-1030.  The   *)
(* lengths are EMU and the pixel sizes are whole numbers; the code computes *)
(* in floats and python-pptx writes each value with "%d", which drops the   *)
(* fraction.  A quotient is kept as numerator and denominator.  Where the   *)
(* exact quotient is whole, the float the code computed may lie just under  *)
(* or just over it: `rounding` is -1, 0 or 1 for under, exact and over.     *)

Rounding == {-1, 0, 1}

RECURSIVE GCD(_, _)
GCD(a, b) == IF b = 0 THEN a ELSE GCD(b, a % b)

RECURSIVE IsPowerOfTwo(_)
IsPowerOfTwo(n) == n = 1 \/ (n % 2 = 0 /\ IsPowerOfTwo(n \div 2))

\* line 1012, aspect = width / height: the float is the exact ratio when the
\* reduced denominator is a power of two, and then nothing errs after it
ExactAspect(image) ==
    IsPowerOfTwo(image.height \div GCD(image.width, image.height))

Roundings(image) == IF ExactAspect(image) THEN {0} ELSE Rounding

\* "%d" % (num / den), for num >= 0 and den > 0, when the float erred by rounding
TruncLength(num, den, rounding) ==
    IF num % den = 0 /\ rounding = -1 /\ num > 0
    THEN (num \div den) - 1
    ELSE num \div den

\* "%d" % (base + (box - num / den) / 2): the offset errs the other way
TruncOffset(base, box, num, den, rounding) ==
    LET pn == (2 * base + box) * den - num
        pd == 2 * den
    IN  IF pn % pd = 0 /\ rounding = 1 /\ pn > 0
        THEN (pn \div pd) - 1
        ELSE pn \div pd

NoPicture == [placed |-> FALSE]

PlacedPicture(left, top, width, height) ==
    [placed |-> TRUE, left |-> left, top |-> top,
     width |-> width, height |-> height]

\* as FitPicture, with the comparison of line 1014 the other way round: the
\* picture covers the box and is cropped by it
FitPictureCovers(image, left, top, max_width, max_height, rounding) ==
    IF ~image.opens \/ max_width = 0 \/ max_height = 0
    THEN NoPicture
    ELSE IF image.width * max_height < image.height * max_width
         THEN PlacedPicture(
                left,
                TruncOffset(top, max_height,
                            max_width * image.height, image.width, rounding),
                max_width,
                TruncLength(max_width * image.height, image.width, rounding))
         ELSE PlacedPicture(
                TruncOffset(left, max_width,
                            max_height * image.width, image.height, rounding),
                top,
                TruncLength(max_height * image.width, image.height, rounding),
                max_height)

\* lines 1010-1032: the picture add_picture is called with, NoPicture when
\* Image.open or a division raises (the except clause of line 1031)
FitPicture(image, left, top, max_width, max_height, rounding) ==
    IF ~image.opens \/ max_width = 0 \/ max_height = 0
    THEN NoPicture
    ELSE IF image.width * max_height > image.height * max_width
         THEN PlacedPicture(
                left,
                TruncOffset(top, max_height,
                            max_width * image.height, image.width, rounding),
                max_width,
                TruncLength(max_width * image.height, image.width, rounding))
         ELSE PlacedPicture(
                TruncOffset(left, max_width,
                            max_height * image.width, image.height, rounding),
                top,
                TruncLength(max_height * image.width, image.height, rounding),
                max_height)

----------------------------------------------------------------------------
(* SpecFit: _add_image_to_slide sizes one image for one target box.         *)

\* the images Image.open is given: pixel sizes, and whether it opens
\* the last two are sizes on which the floats do err in the box of the image
\* slides
SourceImages ==
    [width : 1..MaxPixels, height : 1..MaxPixels, opens : BOOLEAN]
        \cup {[width |-> 7, height |-> 3, opens |-> TRUE],
               [width |-> 11, height |-> 18, opens |-> TRUE]}

\* the target boxes; the image slides pass the last one (lines 528-532)
TargetBoxes ==
    [left : {0, 3}, top : {0}, max_width : 0..MaxBox, max_height : 0..MaxBox]
        \cup {[left |-> 274320, top |-> 457200,
               max_width |-> 4480560, max_height |-> 5943600]}

InitFit ==
    /\ op = ""
    /\ args \in [image : SourceImages, box : TargetBoxes]
    /\ result = NoPicture
    /\ brand_images = <<>>
    /\ images_by_category = BuildImageLookup(<<>>)
    /\ used_images = {}
    /\ ParkHist
    /\ ParkRender
    /\ ParkConc
    /\ ParkExtract

AddImage ==
    /\ op = ""
    /\ op' = "_add_image_to_slide"
    /\ \E rounding \in Roundings(args.image) :
          result' = FitPicture(args.image, args.box.left, args.box.top,
                               args.box.max_width, args.box.max_height,
                               rounding)
    /\ UNCHANGED <<args, genVars, histVars, renVars, concVars, extVars>>

NextFit == AddImage

SpecFit == InitFit /\ [][NextFit]_vars

----------------------------------------------------------------------------
(* The selector's claims *)

Uploads == images_by_category[USER_UPLOAD]

\* the images of the requested category; none for an unspecified category
Pool(category) ==
    IF category = NoCategory THEN <<>> ELSE images_by_category[category]

\* a vector-format file
IsVector(p) == p.ext = "svg"

\* img could still be given out for the first time when used was the used set
UnusedIn(img, used) ==
    /\ Truthy(img.local_path)
    /\ ~IsVector(img.local_path)
    /\ img.local_path \notin used


\* the user uploads followed by the images of the category every call asks for
SeqPool == Uploads \o Pool(category_arg)

\* C2's premise: u uploads and p images of category C, all non-vector, with
\* distinct local paths
SeqPremise ==
    /\ \A i \in 1..Len(SeqPool) :
          Truthy(SeqPool[i].local_path) /\ ~IsVector(SeqPool[i].local_path)
    /\ \A i, j \in 1..Len(SeqPool) :
          SeqPool[i].local_path = SeqPool[j].local_path => i = j

\* C2 as stated: the k-th call returns the k-th image of the uploads followed
\* by the category's images, and every call after them returns a user upload.
C2_SequenceAsClaimed ==
    (SeqPremise /\ ncalls >= 1) =>
        IF ncalls <= Len(SeqPool)
        THEN last_image = SeqPool[ncalls]
        ELSE last_image # NoImage /\ last_image.category = USER_UPLOAD

\* C2 amended: as stated when there is a user upload (every later call returns
\* the first upload); with no upload the later calls return the first image of
\* the category, and none when that is empty too.
C2_Sequence ==
    (SeqPremise /\ ncalls >= 1) =>
        IF ncalls <= Len(SeqPool)
        THEN last_image = SeqPool[ncalls]
        ELSE IF Len(Uploads) >= 1 THEN last_image = Uploads[1]
        ELSE IF Len(SeqPool) >= 1 THEN last_image = SeqPool[1]
        ELSE last_image = NoImage

\* one upload and two images of the category, all given out once, and the call
\* after them made
C2_Witness ==
    /\ SeqPremise
    /\ Len(Uploads) = 1
    /\ Len(Pool(category_arg)) = 2
    /\ ncalls = 4
    /\ last_image = Uploads[1]

\* C3 as stated: whenever no unused image qualifies for the request (no unused
\* upload, and none in the requested category or, for an unspecified category,
\* in the scanned ones), a used non-vector upload is returned if there is one,
\* else a used non-vector image of the requested category, else none.
NoUnusedQualifies ==
    /\ \A i \in 1..Len(Uploads) : ~UnusedIn(Uploads[i], prev_used)
    /\ IF last_category = NoCategory
       THEN \A k \in 1..Len(PriorityOrder) :
               \A img \in Range(images_by_category[PriorityOrder[k]]) :
                  ~UnusedIn(img, prev_used)
       ELSE \A img \in Range(Pool(last_category)) : ~UnusedIn(img, prev_used)

Reusable(img) ==
    /\ Truthy(img.local_path)
    /\ ~IsVector(img.local_path)
    /\ img.local_path \in prev_used

C3_ReuseOnExhaustion ==
    (called /\ NoUnusedQualifies) =>
        IF \E img \in Range(Uploads) : Reusable(img)
        THEN last_image \in Range(Uploads) /\ Reusable(last_image)
        ELSE IF \E img \in Range(Pool(last_category)) : Reusable(img)
        THEN last_image \in Range(Pool(last_category)) /\ Reusable(last_image)
        ELSE last_image = NoImage

\* C4: a call that finds an unused non-vector user upload returns an unused
\* user upload, whatever the category asked for.
C4_UploadsFirst ==
    (called /\ \E img \in Range(Uploads) : UnusedIn(img, prev_used)) =>
        /\ last_image \in Range(Uploads)
        /\ last_image.local_path \notin prev_used

\* an upload was returned although the requested category had an unused image
C4_Witness ==
    /\ called
    /\ last_category \notin {NoCategory, USER_UPLOAD}
    /\ \E img \in Range(Pool(last_category)) : UnusedIn(img, prev_used)
    /\ last_image \in Range(Uploads)
    /\ last_image.local_path \notin prev_used

\* C5: a path is returned a second time only by a call that found no unused
\* non-vector image among the uploads and the requested category, and such a
\* call leaves the used set as it was.
C5_AtMostOnce ==
    (called /\ last_image # NoImage /\ last_image.local_path \in returned) =>
        /\ \A img \in Range(Uploads) \cup Range(Pool(last_category)) :
              ~UnusedIn(img, prev_used)
        /\ used_images = prev_used

\* a path is returned for the second time
C5_Witness ==
    /\ called
    /\ last_image # NoImage
    /\ last_image.local_path \in returned
    /\ last_image.category # USER_UPLOAD

----------------------------------------------------------------------------
(* The renderer's claims *)

\* the slides created while the record with index r was being composed
SlidesOf(r) == SelectSeq(prs, LAMBDA slide : slide.record = r)

\* C1 as stated: the document a fresh generator saves has one slide for each
\* SlideContent record, the k-th slide made for the k-th record.
C1_OneSlidePerRecord ==
    (pc = "returned" /\ ~regenerated) =>
        /\ Len(saved) = Len(contents)
        /\ \A k \in 1..Len(saved) : saved[k].record = k - 1

\* C6 as stated: a second generate() on the same generator starts with an
\* empty used-image set, slide index 0 and no slides, and the document it
\* saves holds no slide made for an earlier call's records.
C6_FreshPerCall ==
    regenerated =>
        /\ (pc = "composing" /\ Len(contents) = call_start) =>
              (used_images = {} /\ slide_count = 0 /\ prs = <<>>)
        /\ pc = "returned" =>
              \A k \in 1..Len(saved) : saved[k].record >= call_start

\* C8 as stated: the only exception generate() raises is the one of the
\* final save.
C8_OnlySaveRaises == pc = "raised" => error = "OSError"

\* a stats record with no explicit stats none of whose bullets parses
Unparseable(content) ==
    /\ content.layout = "stats"
    /\ content.stats = <<>>
    /\ ~StatsData(content).raised
    /\ StatsData(content).stats = <<>>

\* what the bullets composer alone puts into a document for the record
BulletsAlone(content, index) ==
    AddBulletSlide([Gen EXCEPT !.slide_count = index, !.slides = <<>>],
                   content).slides

\* C9 as stated: what the document holds for a stats record with no stats
\* and no parseable bullet is the slide of the bullets composer for the same
\* record and slide index, and nothing else.
C9_FallbackIsBulletsOnly ==
    \A k \in 1..slide_count :
        Unparseable(contents[k]) =>
            SlidesOf(k - 1) = BulletsAlone(contents[k], k - 1)

\* generate_pptx(presentation, brand, path) run on its own, up to the k-th
\* record of the presentation
RunAlone(brand, presentation) ==
    LET run[k \in 0..Len(presentation)] ==
            IF k = 0 THEN NewGenerator(brand)
            ELSE ComposeNext(run[k - 1], presentation[k])
    IN  run[Len(presentation)]

\* C7: at every point of every interleaving, the generator of each call
\* (the images it has allocated, its slide index and so the bullet style,
\* its slides) and the document it saves are those of the call run alone on
\* the records it has composed.
C7_NoInterference ==
    \A i \in Callers :
        calls[i].pc # "idle" =>
            /\ calls[i].g = RunAlone(calls[i].brand, calls[i].contents)
            /\ calls[i].pc = "returned" =>
                  calls[i].saved =
                      RunAlone(calls[i].brand, calls[i].contents).slides

\* both calls have returned after overlapping, and both allocated the same
\* image file
C7_Witness ==
    /\ interleaved
    /\ \A i \in Callers :
          calls[i].pc = "returned" /\ Len(calls[i].contents) = MaxConcSlides
    /\ calls[1].g.used_images \cap calls[2].g.used_images # {}

----------------------------------------------------------------------------
(* The extractor's claims *)

\* the bytes are no presentation package: empty, no zip archive, or a zip
\* archive without the package's parts
Malformed(file_content) == file_content.package # "pptx"

\* C10: once the extractor has been constructed on empty or malformed bytes
\* and run, it has returned (not raised), and the TemplateProfile it
\* returned has every field at its default.
C10_MalformedYieldsDefault ==
    (extractor.pc # "idle" /\ Malformed(extractor.file_content)) =>
        /\ extractor.pc = "returned"
        /\ profile = TemplateProfile

\* the sub-steps of extract() that fail on the template
LayoutsFail(file_content) ==
    \E i \in 1..Len(file_content.layouts) : file_content.layouts[i].broken

\* C11: once extract() has run on a package the constructor could open, it
\* has returned a TemplateProfile; a sub-step that failed (unreadable theme,
\* master background that raises, layout that cannot be loaded) left its
\* field at the default, and every field is what its own sub-step yields.
C11_SubStepsIndependent ==
    LET fc == extractor.file_content
    IN  (extractor.pc \in {"returned", "raised"} /\ ~Malformed(fc)) =>
            /\ extractor.pc = "returned"
            /\ ~fc.theme.readable => profile.theme_colors = ThemeColors
            /\ fc.master_fill.type = "raises" =>
                  profile.master_background = NoBackground
            /\ LayoutsFail(fc) => profile.layouts = <<>>
            /\ profile.extracted_images = ExtractBackgroundImages(fc)
            /\ profile.extracted_palette = ExtractShapeColors(fc)

----------------------------------------------------------------------------
(* The dispatch's claims *)

\* the composer of each of the nine layout tags
Composer(tag, g, content) ==
    CASE tag = "title_slide" -> AddTitleSlide(g, content)
      [] tag = "bullet_points" -> AddBulletSlide(g, content)
      [] tag = "two_column" -> AddTwoColumnSlide(g, content)
      [] tag = "image_left" -> AddImageLeftSlide(g, content)
      [] tag = "image_right" -> AddImageRightSlide(g, content)
      [] tag = "section_divider" -> AddSectionDivider(g, content)
      [] tag = "quote" -> AddQuoteSlide(g, content)
      [] tag = "stats" -> AddStatsSlide(g, content)
      [] tag = "thank_you" -> AddThankYouSlide(g, content)

\* the composer tag a slide given this layout is to be rendered by
Routed(given) ==
    IF given.data.has_layout /\ given.data.layout \in SlideLayout
    THEN given.data.layout
    ELSE "bullet_points"

\* the generator after the first k slides, each rendered by the composer its
\* given layout is routed to
Routing(k) ==
    LET doc[i \in 0..k] ==
            IF i = 0 THEN NewGenerator(Brand(brand_images, logo_path))
            ELSE [Composer(Routed(args[i]), doc[i - 1], result[i])
                    EXCEPT !.slide_count = @ + 1]
    IN  doc[k]

----------------------------------------------------------------------------
(* The color math's claims *)

\* C13: with factor 0 either function returns the color it was given, in
\* whatever letter case it was written; with factor 1 lighten_color returns
\* "#ffffff" and darken_color "#000000".
C13_ColorIdentities ==
    op \in {"lighten_color", "darken_color"} =>
        /\ args.factor = 0 => result = args.hex_color
        /\ (op = "lighten_color" /\ args.factor = 10) =>
              result = <<"#", "f", "f", "f", "f", "f", "f">>
        /\ (op = "darken_color" /\ args.factor = 10) =>
              result = <<"#", "0", "0", "0", "0", "0", "0">>

----------------------------------------------------------------------------
(* The palette's claims *)

\* every color counted, with its combined count over the three counters
Observed == args.fill_colors \o args.text_colors \o args.bg_colors

NonNeutral == {c \in Range(Observed) : ~is_neutral(c)}

\* color is a most frequent one of the non-neutral colors outside taken
TopOf(color, taken) ==
    /\ color \in NonNeutral \ taken
    /\ \A c \in NonNeutral \ taken : Count(Observed, c) <= Count(Observed, color)

C15_NoPureWhiteOrBlack ==
    op = "_extract_shape_colors" =>
        /\ \A role \in {result.primary, result.secondary, result.accent,
                        result.background, result.text} :
              role \notin {"#FFFFFF", "#000000"}
        /\ Len(result.all_colors) <= 20
        /\ \A i \in 1..Len(result.all_colors), j \in 1..Len(result.all_colors) :
              i < j => Count(Observed, result.all_colors[i])
                          >= Count(Observed, result.all_colors[j])

----------------------------------------------------------------------------
(* The stat parsing's claims *)

\* the positions at which text has " - "
Separators(text) ==
    {i \in 1..(Len(text) - 2) :
        text[i] = " " /\ text[i + 1] = "-" /\ text[i + 2] = " "}

\* text without its leading and trailing blanks
Trimmed(text) ==
    LET inked == {i \in 1..Len(text) : text[i] # " "}
    IN  IF inked = {} THEN <<>> ELSE SubSeq(text, Min(inked), Max(inked))

StartsNumerically(text) ==
    text # <<>> /\ (IsDigit(text[1]) \/ text[1] \in {"$", "%"})

\* value is the leading numeric-like token of text, label what follows the
\* blanks after it: digits and "$%,." first, then letters and digits, both
\* runs as long as they can be
SplitsAtToken(text, value, label) ==
    \E n \in 1..Len(text), m \in 0..Len(text), gap \in 0..Len(text) :
        /\ n + m + gap <= Len(text)
        /\ value = SubSeq(text, 1, n + m)
        /\ label = SubSeq(text, n + m + gap + 1, Len(text))
        /\ \A i \in 1..n : IsNumChar(text[i])
        /\ \A i \in (n + 1)..(n + m) : IsWordChar(text[i])
        /\ \A i \in (n + m + 1)..(n + m + gap) : text[i] = " "
        /\ n + m < Len(text) => ~IsWordChar(text[n + m + 1])
        /\ (m = 0 /\ n < Len(text)) => ~IsNumChar(text[n + 1])
        /\ label # <<>> => label[1] # " "

\* C16: a bullet with " - " is split at the first one into trimmed value and
\* label; otherwise a bullet starting with a digit, "$" or "%" gives its
\* leading numeric-like token as the value and the rest as the label; any
\* other bullet is dropped.
C16_TwoPathRule ==
    op = "parse" =>
        IF Separators(args) # {}
        THEN LET at == Min(Separators(args))
             IN  /\ result.tag = "stat"
                 /\ result.value = Trimmed(SubSeq(args, 1, at - 1))
                 /\ result.label = Trimmed(SubSeq(args, at + 3, Len(args)))
        ELSE IF StartsNumerically(args)
        THEN result.tag = "stat" /\ SplitsAtToken(args, result.value, result.label)
        ELSE result.tag = "drop"

----------------------------------------------------------------------------
(* The bullet styles' claims *)

HasShape(slide, kind) ==
    \E i \in 1..Len(slide.shapes) : slide.shapes[i].kind = kind

\* the gradient background with the corner accent
GradientStyle(slide) ==
    HasShape(slide, "gradient") /\ HasShape(slide, "corner")
        /\ ~HasShape(slide, "strip")

\* the white background with the solid bar on the left
BarStyle(slide) ==
    HasShape(slide, "strip") /\ ~HasShape(slide, "gradient")
        /\ ~HasShape(slide, "corner")

\* the records composed without raising
Composed == IF error \in {"", "OSError"} THEN Len(contents) ELSE Len(contents) - 1

\* C17: a slide of the bullet-list composer has the gradient style iff the
\* slide index it was made under is even and the bar style iff it is odd, so
\* the bullets slides of two successive records differ in style; the index
\* is the number of records composed, whatever their layouts.
C17_StyleAlternates ==
    /\ \A i \in 1..Len(prs) :
          prs[i].layout = "bullet_points" =>
              /\ GradientStyle(prs[i]) <=> prs[i].record % 2 = 0
              /\ BarStyle(prs[i]) <=> prs[i].record % 2 = 1
    /\ \A i \in 1..Len(prs), j \in 1..Len(prs) :
          (/\ prs[i].layout = "bullet_points"
           /\ prs[j].layout = "bullet_points"
           /\ prs[j].record = prs[i].record + 1) =>
              GradientStyle(prs[i]) # GradientStyle(prs[j])
    /\ slide_count = Composed
    /\ \A k \in 1..Composed : SlidesOf(k - 1) # <<>>
    /\ \A i \in 1..Len(prs) : prs[i].record < Len(contents)

\* two bullets records in a row were rendered, and so was a bullets slide
\* under an odd index
C17_Witness ==
    /\ pc = "returned"
    /\ Len(contents) = MaxSlides
    /\ \A k \in 1..Len(contents) : contents[k].layout = "bullet_points"
    /\ \E i \in 1..Len(prs) : BarStyle(prs[i])
    /\ \E i \in 1..Len(prs) : GradientStyle(prs[i])


----------------------------------------------------------------------------
(* The picture sizing's claims *)

\* the picture has been sized
Fitted == op = "_add_image_to_slide"

\* the space left between the picture and each side of the box
LeftMargin == result.left - args.box.left
RightMargin ==
    (args.box.left + args.box.max_width) - (result.left + result.width)
TopMargin == result.top - args.box.top
BottomMargin ==
    (args.box.top + args.box.max_height) - (result.top + result.height)

Within(a, b, d) == a - b <= d /\ b - a <= d

\* C18 as stated: for every source image with positive pixel width and height
\* and every target box (of positive width and height), the picture placed
\* does not exceed the box, has exactly the source's width:height ratio, has
\* one dimension equal to the box's, and has equal margins on opposite sides.
C18_FitsExactly ==
    (/\ Fitted
     /\ args.image.opens
     /\ args.box.max_width > 0
     /\ args.box.max_height > 0) =>
        /\ result.placed
        /\ result.width <= args.box.max_width
        /\ result.height <= args.box.max_height
        /\ result.width * args.image.height = result.height * args.image.width
        /\ \/ result.width = args.box.max_width
           \/ result.height = args.box.max_height
        /\ LeftMargin = RightMargin
        /\ TopMargin = BottomMargin

\* C18 as amended: for every source image that opens and every box with
\* positive sides, the picture placed does not exceed the box in width or
\* height, has one dimension equal to the box's and the other at most one EMU
\* under the length the source's ratio gives (never over it), starts at most
\* one EMU before the box, and has margins on opposite sides that differ by
\* at most two EMU.
C18_FitsToTheEmu ==
    (/\ Fitted
     /\ args.image.opens
     /\ args.box.max_width > 0
     /\ args.box.max_height > 0) =>
        /\ result.placed
        /\ result.width <= args.box.max_width
        /\ result.height <= args.box.max_height
        /\ \/ /\ result.width = args.box.max_width
              /\ result.height * args.image.width
                    <= args.box.max_width * args.image.height
              /\ args.box.max_width * args.image.height
                    <= (result.height + 1) * args.image.width
           \/ /\ result.height = args.box.max_height
              /\ result.width * args.image.height
                    <= args.box.max_height * args.image.width
              /\ args.box.max_height * args.image.width
                    <= (result.width + 1) * args.image.height
        /\ LeftMargin >= -1
        /\ TopMargin >= -1
        /\ Within(LeftMargin, RightMargin, 2)
        /\ Within(TopMargin, BottomMargin, 2)

\* C18's witness: a wide image is letterboxed in a box it does not divide
C18_Witness ==
    /\ Fitted
    /\ result.placed
    /\ result.width = args.box.max_width
    /\ result.height < args.box.max_height
    /\ result.height > 0
    /\ TopMargin > 0
    /\ result.width * args.image.height # result.height * args.image.width


----------------------------------------------------------------------------
(* The vector files' claims *)

\* an SVG file, whatever the letter case of its extension
VectorFormat(p) == p.ext \in {"svg", "SVG"}

\* the images the latest call could have returned for the first time: the
\* unused raster images among the user uploads and the requested category
RasterCandidates ==
    LET pool == Uploads \o Pool(last_category)
    IN  {i \in 1..Len(pool) :
            /\ Truthy(pool[i].local_path)
            /\ ~VectorFormat(pool[i].local_path)
            /\ pool[i].local_path \notin prev_used}

\* C19 as stated: an SVG image is never returned by the selector and never
\* embedded, whatever the letter case of its extension, and when a raster
\* image could have satisfied a selection the selector returns a raster image.
C19_VectorNeverSelected ==
    called =>
        /\ ~VectorFormat(last_image.local_path)
        /\ \A i \in 1..Len(Picture(last_image)) :
              Picture(last_image)[i].text[2] \notin {"svg", "SVG"}
        /\ RasterCandidates # {} =>
              (last_image # NoImage /\ ~VectorFormat(last_image.local_path))


----------------------------------------------------------------------------
(* The save's claims *)

\* what the file at the output path holds of the current call's records
WrittenByCall == SelectSeq(saved, LAMBDA slide : slide.record >= call_start)

\* C20: the document is saved only after every record of the presentation
\* has been composed, and it then holds all the slides; until then, and when
\* the composition of a record raised, the file at the output path holds
\* nothing of this call.
C20_SaveAfterComposition ==
    /\ pc = "returned" =>
          /\ ComposedInCall = Len(args)
          /\ saved = prs
          /\ \A k \in call_start + 1..Len(contents) :
                \E i \in 1..Len(saved) : saved[i].record = k - 1
    /\ (\/ pc \in {"constructed", "composing"}
        \/ pc = "raised" /\ error # "OSError") =>
          WrittenByCall = <<>>
    /\ (pc = "raised" /\ ~regenerated /\ error # "OSError") => saved = <<>>

\* C20's witness: the composition of the second record raised after the
\* first was composed, and no file was written
C20_Witness ==
    /\ pc = "raised"
    /\ error \notin {"", "OSError"}
    /\ Len(args) = 2
    /\ Len(contents) = 2
    /\ Len(prs) >= 1
    /\ saved = <<>>


----------------------------------------------------------------------------
(* The determinism claim *)

\* both calls were given the same brand and, so far, the same records (the
\* files on disk are the same for both: Exists and Openable)
SameInputs ==
    /\ \A i \in Callers : calls[i].pc # "idle"
    /\ calls[1].brand = calls[2].brand
    /\ calls[1].contents = calls[2].contents

----------------------------------------------------------------------------
(* The job's claims *)

\* the job failed in the merge step: routes.py, lines 85-98
FailedAtMerge ==
    /\ result.status = "failed"
    /\ result.error \in {MergeWithTemplateError,
                         CreateProfileFromTemplateError}

\* a BrandProfile has been handed to generate_content
Handed == result.handed # NoBrandProfile

\* C22 as stated: with a scraped profile and a template profile the merge
\* step yields a BrandProfile with the template's colors and fonts, with a
\* template alone one built from the template with an empty company name,
\* and in both cases the job goes on to content generation and does not fail
\* at the merge step.
C22_MergeProceeds ==
    /\ result.template_profile # "None" => ~FailedAtMerge
    /\ (Handed /\ result.template_profile # "None") =>
          /\ result.handed.colors = "template"
          /\ result.handed.fonts = "template"
    /\ (Handed /\ ~args.has_url) => result.handed.company_name = ""


\* C23: whenever a job has uploaded images, the BrandProfile handed to
\* content generation and rendering (and kept in the job) lists all of them
\* in upload order, followed by the images analyze_brand returned in the
\* order it returned them.
C23_UploadsPrepended ==
    (Handed /\ args.uploaded_images # <<>>) =>
        /\ result.handed.images =
              args.uploaded_images \o result.analyzed.images
        /\ result.brand_profile = result.handed

\* C23's witness: the renderer is at work on a profile of two uploads and
\* two scraped images
C23_Witness ==
    /\ op = "building"
    /\ Len(args.uploaded_images) = 2
    /\ args.uploaded_images[1] # args.uploaded_images[2]
    /\ Len(result.analyzed.images) = 2
    /\ Len(result.handed.images) = 4


----------------------------------------------------------------------------
(* The priority scan's claim *)

\* the images of the four scanned categories, in scan order
PriorityPool ==
    images_by_category["hero"] \o images_by_category["product"]
        \o images_by_category["team"] \o images_by_category["office"]

\* img was unused and no vector file when the latest call began
Offerable(img) ==
    /\ Truthy(img.local_path)
    /\ ~VectorFormat(img.local_path)
    /\ img.local_path \notin prev_used

\* the first offerable image of the scan, NoImage when there is none
FirstOfferable ==
    LET hits == {i \in 1..Len(PriorityPool) : Offerable(PriorityPool[i])}
    IN  IF hits = {} THEN NoImage ELSE PriorityPool[Min(hits)]

\* C24 as stated: when no user upload is unused and the category is
\* unspecified, the call returns the first unused non-vector image of the
\* scan hero, product, team, office (list order within a category), and
\* never an image of another category.
C24_PriorityScan ==
    (/\ called
     /\ last_category = NoCategory
     /\ \A img \in Range(Uploads) : ~Offerable(img)) =>
        /\ last_image = FirstOfferable
        /\ last_image # NoImage =>
              last_image.category \in Range(PriorityOrder)


\* C25: along every execution of process_presentation the progress never
\* decreases, a completed job has shown a value strictly between 0.10 and
\* 1.0, and the progress is 1.0 exactly when the status is COMPLETED.
C25_ProgressMonotone ==
    /\ \A i \in 1..Len(result.history), j \in 1..Len(result.history) :
          i <= j => result.history[i] <= result.history[j]
    /\ result.progress = result.history[Len(result.history)]
    /\ result.status = "completed" <=> result.progress = 100
    /\ result.status = "completed" =>
          \E i \in 1..Len(result.history) :
              result.history[i] > 10 /\ result.history[i] < 100

\* C25's witness: a job has completed after its progress went through the
\* values of the scrape, the analysis, the content and the build
C25_Witness ==
    /\ op = "done"
    /\ result.status = "completed"
    /\ result.history = <<0, 20, 30, 35, 40, 45, 70, 75, 100>>


----------------------------------------------------------------------------
(* The stats cards' claim *)

\* the record's stats are derived from its bullets, none of which is empty
DerivedFromBullets(content) ==
    /\ content.layout = "stats"
    /\ content.stats = <<>>
    /\ content.bullets # <<>>
    /\ \A i \in 1..Len(content.bullets) : content.bullets[i] # <<>>

\* the bullets of the record that parse as a stat, in bullet order
ParseableBullets(content) ==
    SelectSeq([i \in 1..Len(content.bullets) |->
                    ParseBullet(content.bullets[i])],
              LAMBDA r : r.tag = "stat")

\* the shapes of one kind on the slides made for the record with index r
ShapesOfKind(r, kind) ==
    LET on[i \in 0..Len(SlidesOf(r))] ==
            IF i = 0 THEN <<>>
            ELSE on[i - 1] \o SelectSeq(SlidesOf(r)[i].shapes,
                                        LAMBDA shape : shape.kind = kind)
    IN  on[Len(SlidesOf(r))]

\* C26 as stated: when the stats are derived from the bullets, the slide has
\* one card for each of the first four bullets that parse as a stat, in
\* bullet order, card i filled with primary when i is even and with accent
\* when i is odd (i counted from 0).
C26_CardPerParseableBullet ==
    \A k \in 1..slide_count :
        DerivedFromBullets(contents[k]) =>
            LET expected == Take(ParseableBullets(contents[k]), MAX_CARDS)
                cards == ShapesOfKind(k - 1, "card")
                values == ShapesOfKind(k - 1, "value")
                labels == ShapesOfKind(k - 1, "label")
            IN  /\ Len(cards) = Len(expected)
                /\ Len(values) = Len(expected)
                /\ Len(labels) = Len(expected)
                /\ \A i \in 1..Len(expected) :
                      /\ values[i].text = expected[i].value
                      /\ labels[i].text = expected[i].label
                      /\ cards[i].fill =
                            IF (i - 1) % 2 = 0 THEN "primary" ELSE "accent"

----------------------------------------------------------------------------
(* The font derivation's claim *)

\* font.split()[0] of lines 163-168, as a one-word name
FamilyOf(font) == <<font[1]>>

\* the most frequently used family of the observed fonts
MostUsedFamily(fonts) ==
    MostCommon([i \in 1..Len(fonts) |-> FamilyOf(fonts[i])])[1]

\* the observations of one family, in order
VariantsOf(fonts, family) ==
    SelectSeq(fonts, LAMBDA font : FamilyOf(font) = family)

HeadingVariant(font) == Contains(font, "Medium") \/ Contains(font, "Bold")
BodyVariant(font) == Contains(font, "Light") \/ Contains(font, "Regular")

\* C27: whenever at least one font was observed, the derived heading and
\* body fonts are both variants of the most frequently used family; the
\* heading is a Medium/Bold variant of that family if one was observed, the
\* body a Light/Regular variant if one was observed, and otherwise the role
\* takes that family's single most common variant.
C27_VariantsOfMostUsedFamily ==
    LET fonts == extractor.file_content.fonts
        family == MostUsedFamily(fonts)
        variants == VariantsOf(fonts, family)
        heading == profile.theme_fonts.major_latin
        body == profile.theme_fonts.minor_latin
    IN  (extractor.pc = "returned" /\ ~Malformed(extractor.file_content)
         /\ fonts # <<>>) =>
            /\ FamilyOf(heading) = family
            /\ FamilyOf(body) = family
            /\ IF \E i \in 1..Len(variants) : HeadingVariant(variants[i])
               THEN HeadingVariant(heading)
               ELSE heading = MostCommon(variants)[1]
            /\ IF \E i \in 1..Len(variants) : BodyVariant(variants[i])
               THEN BodyVariant(body)
               ELSE body = MostCommon(variants)[1]

----------------------------------------------------------------------------
(* The used-image set's claim *)

\* the picture shape _add_image_to_slide makes of a path is on some slide
Embedded(path) ==
    \E i \in 1..Len(prs) : \E j \in 1..Len(prs[i].shapes) :
        /\ prs[i].shapes[j].kind = "picture"
        /\ prs[i].shapes[j].text = <<path.stem, path.ext>>

\* an image the renderer can embed: it has a path, is no vector file, and
\* its file exists, opens and has a height
Embeddable(img) ==
    /\ Truthy(img.local_path)
    /\ ~SuffixIsSvg(img.local_path)
    /\ Exists(img.local_path)
    /\ Openable(img.local_path)

\* the images the selector scans for a request of the category
Scanned(category) ==
    {i \in 1..Len(brand_images) :
        \/ brand_images[i].category = USER_UPLOAD
        \/ brand_images[i].category = category
        \/ category = NoCategory
              /\ brand_images[i].category \in Range(PriorityOrder)}

\* C28: every local path in the used-image set is the path of a picture
\* embedded on a slide, and a record of layout image_left or image_right was
\* rendered without a picture only if none of the images the selector scans
\* for its category can be embedded.
C28_UsedMeansEmbedded ==
    /\ \A path \in used_images : Embedded(path)
    /\ \A k \in 1..slide_count :
          (/\ error = ""
           /\ contents[k].layout \in {"image_left", "image_right"}
           /\ ShapesOfKind(k - 1, "picture") = <<>>) =>
              \A i \in Scanned(contents[k].image_category) :
                  ~Embeddable(brand_images[i])

----------------------------------------------------------------------------
(* The job's termination claim *)

Terminal == result.status \in {"completed", "failed"}

\* C29: every job process_presentation started eventually is COMPLETED or
\* FAILED; from then on its status never changes; a FAILED job carries a
\* non-empty error message; and a job is COMPLETED only after the output
\* file was saved.
C29_JobTerminates ==
    /\ <>Terminal
    /\ [][Terminal => result'.status = result.status]_vars
    /\ [](result.status = "failed" => result.error \notin {"None", ""})
    /\ [](result.status = "completed" => result.file_saved)

----------------------------------------------------------------------------
(* SpecScrape: one call of WebsiteScraper._scrape_page_with_retry            *)
(* (scraper/website_scraper.py, lines 117-177).  op is where the call is,   *)
(* args its arguments and the scraper's visited_urls at the call, result    *)
(* the scraper's state and the value returned.                              *)

\* most retries a call is given
MaxRetries == 2

Url(scheme, rest) == [scheme |-> scheme, rest |-> rest]

Urls == {Url("https", "acme.test"), Url("https", "acme.test/about"),
         Url("mailto", "info@acme.test")}

\* url.startswith("http")
StartsWithHttp(url) == url.scheme \in {"http", "https"}

\* what the body of _scrape_page did, lines 154-172: the page loaded and
\* every extraction ran; page.goto timed out or failed; an extraction raised
BodyOutcomes == {"loaded", "goto_timeout", "goto_error", "extract_error"}

\* one run of _scrape_page: what its body did ("skipped" for a visited url,
\* "not_opened" when new_context or new_page raised) and the exception that
\* left it, "None" when it returned
Attempt(outcome, raised) == [outcome |-> outcome, raised |-> raised]

\* scrape() calls with a url that is not in visited_urls: lines 85 and 96
ScrapeArgs ==
    UNION {{[url |-> url, retries |-> retries, visited_urls |-> visited] :
                retries \in 0..MaxRetries,
                visited \in SUBSET ({u \in Urls : StartsWithHttp(u)} \ {url})} :
           url \in Urls}

NewScrape(visited) ==
    [visited_urls |-> visited, attempt |-> 0, attempts |-> <<>>,
     sleeps |-> 0, value |-> "None"]

InitScrape ==
    /\ op = "idle"
    /\ args \in ScrapeArgs
    /\ result = NewScrape(args.visited_urls)
    /\ brand_images = <<>>
    /\ images_by_category = BuildImageLookup(<<>>)
    /\ used_images = {}
    /\ ParkHist
    /\ ParkRender
    /\ ParkConc
    /\ ParkExtract

ScrapeStep(next_op, scraper) ==
    /\ op' = next_op
    /\ result' = scraper
    /\ UNCHANGED <<args, genVars, histVars, renVars, concVars, extVars>>

\* lines 143-146 of _scrape_page, and the attempt in the scraper's history
Visit(scraper, attempt) ==
    [scraper EXCEPT !.visited_urls = @ \cup {args.url},
                    !.attempts = Append(@, attempt)]

Return(scraper, value) == [scraper EXCEPT !.value = value]

\* lines 119-121: the call returns False for a url that is not http, or
\* enters the loop of line 123
Enter ==
    /\ op = "idle"
    /\ IF StartsWithHttp(args.url)
       THEN ScrapeStep("attempting", result)
       ELSE ScrapeStep("returned", Return(result, "False"))

\* lines 125-126: _scrape_page returned, whatever its body did: on a visited
\* url at once (lines 143-144), and else after the except of lines 174-175
\* swallowed what the body raised
PageReturns ==
    /\ op = "attempting"
    /\ \E outcome \in IF args.url \in result.visited_urls THEN {"skipped"}
                      ELSE BodyOutcomes :
          ScrapeStep("returned",
                     Return(Visit(result, Attempt(outcome, "None")), "True"))

\* what the body did when an exception left _scrape_page: nothing when
\* new_context or new_page raised (lines 149-153), anything when
\* context.close raised (line 177)
Escaped == {"not_opened"} \cup BodyOutcomes

\* lines 127-130: a PlaywrightTimeout left _scrape_page; the loop sleeps and
\* goes on while attempt < retries, and the call returns False after it
PageTimesOut ==
    /\ op = "attempting"
    /\ args.url \notin result.visited_urls
    /\ \E outcome \in Escaped :
          LET scraper == Visit(result, Attempt(outcome, "PlaywrightTimeout"))
          IN  IF result.attempt < args.retries
              THEN ScrapeStep("attempting",
                              [scraper EXCEPT !.attempt = @ + 1,
                                              !.sleeps = @ + 1])
              ELSE ScrapeStep("returned", Return(scraper, "False"))

\* lines 131-138: another exception left _scrape_page
PageRaises ==
    /\ op = "attempting"
    /\ args.url \notin result.visited_urls
    /\ \E outcome \in Escaped :
          ScrapeStep("returned",
                     Return(Visit(result, Attempt(outcome, "Error")),
                            "False"))

NextScrape ==
    \/ Enter
    \/ PageReturns
    \/ PageTimesOut
    \/ PageRaises

SpecScrape == InitScrape /\ [][NextScrape]_vars

----------------------------------------------------------------------------
(* The retry's claim *)

\* the attempt loaded the page and extracted its assets
LoadedAndExtracted(attempt) == attempt.outcome = "loaded"

\* the attempt ended in a timeout, of the page load or of the browser
TimedOut(attempt) ==
    attempt.outcome = "goto_timeout" \/ attempt.raised = "PlaywrightTimeout"

\* C30: when _scrape_page_with_retry(url, retries) has returned, it made at
\* most retries + 1 attempts and each attempt after the first followed a
\* timeout and tried the page again; it returned True only if some attempt
\* loaded the page and extracted its assets; and it returned False if
\* every attempt timed out.
C30_RetryAfterTimeout ==
    LET attempts == result.attempts
    IN  op = "returned" =>
            /\ Len(attempts) <= args.retries + 1
            /\ \A i \in 2..Len(attempts) :
                  TimedOut(attempts[i - 1]) /\ attempts[i].outcome # "skipped"
            /\ result.value = "True" =>
                  \E i \in 1..Len(attempts) : LoadedAndExtracted(attempts[i])
            /\ (attempts # <<>>
                /\ \A i \in 1..Len(attempts) : TimedOut(attempts[i])) =>
                  result.value = "False"

====
